---- MODULE Spec2Model ----
(***************************************************************************)
(* NABD: a lock-free shared-memory ring queue (nabd.c).                    *)
(*                                                                         *)
(* The shared region is the control block (ctrl), the ring of slots        *)
(* (slots) and the consumer-group table (groups).  The handle q holds the  *)
(* process-local bookkeeping of struct nabd.                               *)
(*                                                                         *)
(* The specifications:                                                     *)
(*   Spec      every public data-plane call as one atomic action, called   *)
(*             in any order on one handle;                                 *)
(*   SpecMC    push and pop as atomic calls, together with the creation    *)
(*             of consumer groups and consumer_pop;                        *)
(*   SpecPP    push and pop only, as atomic calls, for every slot size;    *)
(*   SpecSPSC  one producer process and one consumer process whose push    *)
(*             and pop are interleaved at the level of their loads and     *)
(*             stores of shared memory.                                    *)
(*   SpecPub   push, pop, peek and reserve with a producer that may stop   *)
(*             before it publishes, and a handle attached afterwards;      *)
(*   SpecPeek  push, pop, repeated peeks and release;                      *)
(*   SpecOpen  nabd_open on a region that already exists, with and         *)
(*             without NABD_CREATE;                                        *)
(*   SpecFan   push and two consumer groups (create, pop, peek, release);  *)
(*   SpecCreate  two processes inside nabd_consumer_create;                *)
(*   SpecJoin  consumer groups with close and join;                        *)
(*   SpecMin   push, pop and consumer groups with nabd_min_tail;           *)
(*   SpecDiag  push and pop with nabd_diagnose and nabd_recover;           *)
(*   SpecCkpt  a consumer group with checkpoint save and load, and a       *)
(*             checkpoint file that may be damaged in between;             *)
(*   SpecResume  a consumer that restarts from its checkpoint;             *)
(*   SpecCrash consumers that may stop between the copy of a message and   *)
(*             the store of their tail;                                    *)
(*   SpecFill  the data-plane calls with fill_level and is_pressured;      *)
(*   SpecWait  push_wait beside a consumer and a clock, the producer's     *)
(*             steps weakly fair;                                          *)
(*   SpecBackoff  push_backoff beside a consumer;                          *)
(*   SpecCommit  Spec's push, pop and reserve, and commit with any len;    *)
(*   SpecRace  two handles of one group inside consumer_pop, step by       *)
(*             step (SpecRaceRelease: and inside consumer_release);        *)
(*   SpecNew   nabd_open with NABD_CREATE for more arguments;              *)
(*   SpecPlain consumer_create on the handle nabd_open returns;            *)
(*   SpecObserve  nabd_min_tail between the steps of consumer_create;      *)
(*   SpecLap   consumer_resume after the producer went round the ring.     *)
(*                                                                         *)
(* Byte strings (payloads, caller buffers) are run-length encoded: a       *)
(* sequence of runs [n, b] meaning n copies of byte b, in normal form      *)
(* (no empty run, no two adjacent runs of the same byte), so that two      *)
(* byte strings are equal exactly when their encodings are equal.          *)
(***************************************************************************)
EXTENDS Integers, Sequences, FiniteSets, TLC

(* ---------------------------------------------------------------------- *)
(* Bounds of the model                                                    *)
(* ---------------------------------------------------------------------- *)

\* Spec: head and tail are not advanced past this value.
MaxHead == 3

\* SpecPP: number of pushes explored.
MaxPushPP == 3

\* SpecPub: number of pushes explored.
MaxPushPub == 2

\* SpecCrash: consumers that stop inside nabd_pop, and as many inside
\* nabd_consumer_pop.
MaxCrash == 1

\* SpecWait: the monotonic clock is not advanced past this value.
MaxClock == 2

\* SpecBackoff: attempts of one push_backoff call that never gives up.
MaxRetries == 4

\* SpecPeek: consecutive peeks that are told apart.
MaxPeek == 2

\* SpecSPSC: number of push calls that return OK.
MaxPushSPSC == 5

\* SpecMC: consumer_create calls that return a handle.
MaxCreate == 1

\* SpecMC: spurious failures of the weak compare-and-swap in one scan of
\* consumer_create.
MaxSpurious == 1

(* ---------------------------------------------------------------------- *)
(* Program constants                                                      *)
(* ---------------------------------------------------------------------- *)

NABD_DEFAULT_SLOT_SIZE == 4096
NABD_DEFAULT_CAPACITY == 1024
NABD_MAX_CONSUMERS == 16

\* sizeof(nabd_slot_header_t): uint16 length, uint16 flags, uint32 sequence
SizeofSlotHeader == 8

\* range of the uint16_t length field of the slot header
U16 == 65536

(* ---------------------------------------------------------------------- *)
(* Byte strings                                                           *)
(* ---------------------------------------------------------------------- *)

RECURSIVE BytesLen(_)
BytesLen(r) == IF r = <<>> THEN 0 ELSE r[1].n + BytesLen(Tail(r))

\* n copies of byte b
Fill(b, n) == IF n = 0 THEN <<>> ELSE <<[n |-> n, b |-> b]>>

\* concatenation, merging the runs that meet
Cat(x, y) ==
  IF x = <<>> THEN y
  ELSE IF y = <<>> THEN x
  ELSE IF x[Len(x)].b = y[1].b
       THEN SubSeq(x, 1, Len(x) - 1)
            \o <<[n |-> x[Len(x)].n + y[1].n, b |-> y[1].b]>>
            \o Tail(y)
       ELSE x \o y

\* the first k bytes of r
RECURSIVE TakeBytes(_, _)
TakeBytes(r, k) ==
  IF k = 0 \/ r = <<>> THEN <<>>
  ELSE IF r[1].n >= k THEN <<[n |-> k, b |-> r[1].b]>>
  ELSE <<r[1]>> \o TakeBytes(Tail(r), k - r[1].n)

\* r without its first k bytes
RECURSIVE DropBytes(_, _)
DropBytes(r, k) ==
  IF k = 0 \/ r = <<>> THEN r
  ELSE IF r[1].n > k THEN <<[n |-> r[1].n - k, b |-> r[1].b]>> \o Tail(r)
  ELSE DropBytes(Tail(r), k - r[1].n)

\* memcpy(dst, src, n): the first n bytes of dst become the first n of src
memcpy(dst, src, n) == Cat(TakeBytes(src, n), DropBytes(dst, n))

(* ---------------------------------------------------------------------- *)
(* Integer helpers of internal.h                                          *)
(* ---------------------------------------------------------------------- *)

RECURSIVE BitAnd(_, _)
BitAnd(a, b) ==
  IF a = 0 \/ b = 0 THEN 0
  ELSE (a % 2) * (b % 2) + 2 * BitAnd(a \div 2, b \div 2)

RECURSIVE BitOr(_, _)
BitOr(a, b) ==
  IF a = 0 THEN b
  ELSE IF b = 0 THEN a
  ELSE (IF a % 2 = 1 \/ b % 2 = 1 THEN 1 ELSE 0) + 2 * BitOr(a \div 2, b \div 2)

RECURSIVE Pow2(_)
Pow2(k) == IF k = 0 THEN 1 ELSE 2 * Pow2(k - 1)

\* n >> k
Shr(n, k) == n \div Pow2(k)

nabd_is_power_of_2(n) == n # 0 /\ BitAnd(n, n - 1) = 0

\* n--; n |= n >> 1; ... n |= n >> 16; n++   (n >= 1; the >> 32 step adds
\* nothing for the values below 2^31 the model uses)
nabd_next_power_of_2(n) ==
  LET n0 == n - 1
      n1 == BitOr(n0, Shr(n0, 1))
      n2 == BitOr(n1, Shr(n1, 2))
      n3 == BitOr(n2, Shr(n2, 4))
      n4 == BitOr(n3, Shr(n3, 8))
      n5 == BitOr(n4, Shr(n4, 16))
  IN n5 + 1

nabd_mod_pow2(n, mask) == BitAnd(n, mask)

(* ---------------------------------------------------------------------- *)
(* State                                                                  *)
(* ---------------------------------------------------------------------- *)

VARIABLES
  ctrl,     \* nabd_control_t: magic, version, capacity, slot_size, head, tail
  slots,    \* the ring: physical index -> [length, flags, sequence, payload]
  groups,   \* nabd_multi_consumer_t.groups: index -> [tail, active, group_id]
  q,        \* struct nabd: cached geometry, reservation state, multi pointer
  chs,      \* the consumer handles (struct nabd_consumer) created so far
  last,     \* the last call made and what it returned to its caller
  rsv,      \* the caller's view of an outstanding reservation
  pushed,   \* history: the messages of the pushes that returned OK
  popped,   \* history: the messages of the pops that returned OK
  prod,     \* SpecSPSC: the producer process inside nabd_push
  cons,     \* SpecSPSC: the consumer process inside nabd_pop
  ckpt_file \* the checkpoint file: its bits, or NoFile

vars == <<ctrl, slots, groups, q, chs, last, rsv, pushed, popped, prod, cons,
          ckpt_file>>

\* no file at the checkpoint path (a file is the set of its 1 bits)
NoFile == {-1}

NABD_MAGIC == "NABD_MAGIC"

\* (NABD_VERSION_MAJOR << 16) | NABD_VERSION_MINOR
NABD_VERSION == BitOr(0 * Pow2(16), 1)

\* what a call hands back: return code, integer result (empty/full), the
\* argument it was given, and its out-parameters
Result(op, ret, val, arg, len, data, idx) ==
  [op |-> op, ret |-> ret, val |-> val, arg |-> arg, len |-> len,
   data |-> data, idx |-> idx]

NoCall == Result("open", "OK", 0, 0, 0, <<>>, 0)

(* ---------------------------------------------------------------------- *)
(* nabd_open with NABD_CREATE on a new name                               *)
(* ---------------------------------------------------------------------- *)

OpenCapacity(capacity) ==
  LET c1 == IF capacity = 0 THEN NABD_DEFAULT_CAPACITY ELSE capacity
  IN IF ~nabd_is_power_of_2(c1) THEN nabd_next_power_of_2(c1) ELSE c1

OpenSlotSize(slot_size) ==
  LET s1 == IF slot_size = 0 THEN NABD_DEFAULT_SLOT_SIZE ELSE slot_size
  IN IF s1 < SizeofSlotHeader + 8 THEN SizeofSlotHeader + 8 ELSE s1

\* the control block as nabd_open initialises it
OpenCtrl(capacity, slot_size) ==
  [magic |-> NABD_MAGIC, version |-> NABD_VERSION,
   capacity |-> OpenCapacity(capacity), slot_size |-> OpenSlotSize(slot_size),
   head |-> 0, tail |-> 0]

\* the ring of a new region: ftruncate gives zero bytes
OpenSlots(capacity, slot_size) ==
  [i \in 0 .. OpenCapacity(capacity) - 1 |->
     [length |-> 0, flags |-> 0, sequence |-> 0,
      payload |-> Fill(0, OpenSlotSize(slot_size) - SizeofSlotHeader)]]

\* the handle: calloc, then the cached values
OpenHandle(capacity, slot_size) ==
  [capacity |-> OpenCapacity(capacity), slot_size |-> OpenSlotSize(slot_size),
   mask |-> OpenCapacity(capacity) - 1, reserved |-> 0, reserve_pos |-> 0,
   multi |-> FALSE]

\* the group table of a new region: every slot free
EmptyGroups ==
  [i \in 0 .. NABD_MAX_CONSUMERS - 1 |-> [tail |-> 0, active |-> 0, group_id |-> 0]]

(* ---------------------------------------------------------------------- *)
(* Slot addressing                                                        *)
(* ---------------------------------------------------------------------- *)

\* the physical index of get_slot(q, index)
get_slot(h, index) == nabd_mod_pow2(index, h.mask)

MaxPayload_NoHeader(h) == h.slot_size

\* q->slot_size - sizeof(nabd_slot_header_t)
MaxPayload(h) == h.slot_size - SizeofSlotHeader

\* (uint16_t)len
ToU16(len) == len % U16

FullCheck_OffByOne(head, tail, capacity) ==
  IF head >= tail THEN head - tail > capacity ELSE TRUE

\* head - tail >= capacity on uint64_t: when head < tail the difference
\* wraps to 2^64 - (tail - head), which is above every capacity
FullCheck(head, tail, capacity) ==
  IF head >= tail THEN head - tail >= capacity ELSE TRUE

(* ---------------------------------------------------------------------- *)
(* The data-plane functions, as functions of the state they read          *)
(* ---------------------------------------------------------------------- *)

\* nabd_push: the return code and the region it leaves
nabd_push(c, s, h, data, len) ==
  IF len > MaxPayload(h) THEN [ret |-> "TOOBIG", ctrl |-> c, slots |-> s]
  ELSE IF FullCheck(c.head, c.tail, h.capacity)
       THEN [ret |-> "FULL", ctrl |-> c, slots |-> s]
  ELSE LET i == get_slot(h, c.head)
       IN [ret |-> "OK",
           ctrl |-> [c EXCEPT !.head = c.head + 1],
           slots |-> [s EXCEPT ![i] =
                        [length |-> ToU16(len), flags |-> 0,
                         sequence |-> c.head,
                         payload |-> memcpy(s[i].payload, data, len)]]]

nabd_pop_NoEmptyCheck(c, s, h, buflen) ==
  LET i == get_slot(h, c.tail)
      msg_len == s[i].length
  IN IF msg_len > buflen
     THEN [ret |-> "TOOBIG", len |-> msg_len, data |-> <<>>, ctrl |-> c]
     ELSE [ret |-> "OK", len |-> msg_len,
           data |-> TakeBytes(s[i].payload, msg_len),
           ctrl |-> [c EXCEPT !.tail = c.tail + 1]]

nabd_pop_SkipTooBig(c, s, h, buflen) ==
  IF c.tail = c.head
  THEN [ret |-> "EMPTY", len |-> buflen, data |-> <<>>, ctrl |-> c]
  ELSE LET i == get_slot(h, c.tail)
           msg_len == s[i].length
       IN IF msg_len > buflen
          THEN [ret |-> "TOOBIG", len |-> msg_len, data |-> <<>>,
                ctrl |-> [c EXCEPT !.tail = c.tail + 1]]
          ELSE [ret |-> "OK", len |-> msg_len,
                data |-> TakeBytes(s[i].payload, msg_len),
                ctrl |-> [c EXCEPT !.tail = c.tail + 1]]

\* nabd_pop: return code, *len and the bytes copied to buf, and the region
nabd_pop(c, s, h, buflen) ==
  IF c.tail = c.head
  THEN [ret |-> "EMPTY", len |-> buflen, data |-> <<>>, ctrl |-> c]
  ELSE LET i == get_slot(h, c.tail)
           msg_len == s[i].length
       IN IF msg_len > buflen
          THEN [ret |-> "TOOBIG", len |-> msg_len, data |-> <<>>, ctrl |-> c]
          ELSE [ret |-> "OK", len |-> msg_len,
                data |-> TakeBytes(s[i].payload, msg_len),
                ctrl |-> [c EXCEPT !.tail = c.tail + 1]]

nabd_reserve_NoGuard(c, h, len) ==
  IF len > MaxPayload(h) THEN [ret |-> "TOOBIG", slot |-> 0, q |-> h]
  ELSE IF FullCheck(c.head, c.tail, h.capacity)
       THEN [ret |-> "FULL", slot |-> 0, q |-> h]
  ELSE [ret |-> "OK", slot |-> get_slot(h, c.head),
        q |-> [h EXCEPT !.reserved = 1, !.reserve_pos = c.head]]

\* nabd_reserve: return code, the slot whose payload area *slot points to,
\* and the handle
nabd_reserve(c, h, len) ==
  IF h.reserved # 0 THEN [ret |-> "INVALID", slot |-> 0, q |-> h]
  ELSE IF len > MaxPayload(h) THEN [ret |-> "TOOBIG", slot |-> 0, q |-> h]
  ELSE IF FullCheck(c.head, c.tail, h.capacity)
       THEN [ret |-> "FULL", slot |-> 0, q |-> h]
  ELSE [ret |-> "OK", slot |-> get_slot(h, c.head),
        q |-> [h EXCEPT !.reserved = 1, !.reserve_pos = c.head]]

nabd_commit_NoSequence(c, s, h, len) ==
  IF h.reserved = 0 THEN [ret |-> "INVALID", ctrl |-> c, slots |-> s, q |-> h]
  ELSE LET i == get_slot(h, h.reserve_pos)
       IN [ret |-> "OK",
           ctrl |-> [c EXCEPT !.head = h.reserve_pos + 1],
           slots |-> [s EXCEPT ![i].length = ToU16(len), ![i].flags = 0],
           q |-> [h EXCEPT !.reserved = 0]]

\* nabd_commit
nabd_commit(c, s, h, len) ==
  IF h.reserved = 0 THEN [ret |-> "INVALID", ctrl |-> c, slots |-> s, q |-> h]
  ELSE LET i == get_slot(h, h.reserve_pos)
       IN [ret |-> "OK",
           ctrl |-> [c EXCEPT !.head = h.reserve_pos + 1],
           slots |-> [s EXCEPT ![i].length = ToU16(len), ![i].flags = 0,
                               ![i].sequence = h.reserve_pos],
           q |-> [h EXCEPT !.reserved = 0]]

nabd_peek_NextSlot(c, s, h) ==
  IF c.tail = c.head THEN [ret |-> "EMPTY", slot |-> 0, len |-> 0]
  ELSE LET i == get_slot(h, c.tail + 1)
       IN [ret |-> "OK", slot |-> i, len |-> s[i].length]

\* nabd_peek: return code, the slot *data points into, and *len
nabd_peek(c, s, h) ==
  IF c.tail = c.head THEN [ret |-> "EMPTY", slot |-> 0, len |-> 0]
  ELSE LET i == get_slot(h, c.tail)
       IN [ret |-> "OK", slot |-> i, len |-> s[i].length]

\* nabd_release
nabd_release(c) == [ret |-> "OK", ctrl |-> [c EXCEPT !.tail = c.tail + 1]]

nabd_empty(c) == IF c.tail = c.head THEN 1 ELSE 0

nabd_full(c, h) == IF FullCheck(c.head, c.tail, h.capacity) THEN 1 ELSE 0

nabd_consumer_create_FromTail(g, c, group_id, i) ==
  LET assigned_id == IF group_id # 0 THEN group_id ELSE i + 1
  IN [groups |-> [g EXCEPT ![i] = [tail |-> c.tail, active |-> 1,
                                   group_id |-> assigned_id]],
      handle |-> [group |-> i, group_id |-> assigned_id]]

\* nabd_consumer_create once the CAS on groups[i].active has succeeded: the
\* group table it leaves and the handle it returns
nabd_consumer_create(g, c, group_id, i) ==
  LET assigned_id == IF group_id # 0 THEN group_id ELSE i + 1
  IN [groups |-> [g EXCEPT ![i] = [tail |-> c.head, active |-> 1,
                                   group_id |-> assigned_id]],
      handle |-> [group |-> i, group_id |-> assigned_id]]

nabd_consumer_pop_SharedTail(g, gi, c, s, h, buflen) ==
  IF g[gi].tail >= c.head
  THEN [ret |-> "EMPTY", len |-> buflen, data |-> <<>>, groups |-> g]
  ELSE LET i == get_slot(h, c.tail)
           msg_len == s[i].length
       IN IF msg_len > buflen
          THEN [ret |-> "TOOBIG", len |-> msg_len, data |-> <<>>, groups |-> g]
          ELSE [ret |-> "OK", len |-> msg_len,
                data |-> TakeBytes(s[i].payload, msg_len),
                groups |-> [g EXCEPT ![gi].tail = g[gi].tail + 1]]

\* nabd_consumer_pop on a handle bound to group gi: return code, *len, the
\* bytes copied to buf, and the group table
nabd_consumer_pop(g, gi, c, s, h, buflen) ==
  IF g[gi].tail >= c.head
  THEN [ret |-> "EMPTY", len |-> buflen, data |-> <<>>, groups |-> g]
  ELSE LET i == get_slot(h, g[gi].tail)
           msg_len == s[i].length
       IN IF msg_len > buflen
          THEN [ret |-> "TOOBIG", len |-> msg_len, data |-> <<>>, groups |-> g]
          ELSE [ret |-> "OK", len |-> msg_len,
                data |-> TakeBytes(s[i].payload, msg_len),
                groups |-> [g EXCEPT ![gi].tail = g[gi].tail + 1]]

\* nabd_consumer_peek: return code, the slot *data points into, and *len
nabd_consumer_peek(g, gi, c, s, h) ==
  IF g[gi].tail >= c.head THEN [ret |-> "EMPTY", slot |-> 0, len |-> 0]
  ELSE LET i == get_slot(h, g[gi].tail)
       IN [ret |-> "OK", slot |-> i, len |-> s[i].length]

\* nabd_consumer_release
nabd_consumer_release(g, gi) ==
  [ret |-> "OK", groups |-> [g EXCEPT ![gi].tail = g[gi].tail + 1]]

\* nabd_consumer_join: errno and the handle, bound to the first active slot
\* of the table whose group_id matches
nabd_consumer_join(g, h, group_id) ==
  LET found == {i \in DOMAIN g : g[i].active # 0 /\ g[i].group_id = group_id}
  IN IF group_id = 0 THEN [ret |-> "NULL", handle |-> <<>>]
     ELSE IF ~h.multi THEN [ret |-> "EINVAL", handle |-> <<>>]
     ELSE IF found = {} THEN [ret |-> "ENOENT", handle |-> <<>>]
     ELSE LET i == CHOOSE x \in found : \A y \in found : x <= y
          IN [ret |-> "OK", handle |-> [group |-> i, group_id |-> group_id]]

\* nabd_consumer_close: free(c); the group table is not touched
nabd_consumer_close(g) == [ret |-> "OK", groups |-> g]

\* UINT64_MAX, the start value of the loop of nabd_min_tail: the greatest
\* integer of the checker stands for it (every tail explored lies below)
UINT64_MAX == 2147483647

\* the loop of nabd_min_tail over the slots i .. NABD_MAX_CONSUMERS - 1
RECURSIVE MinTailLoop_NoActiveTest(_, _, _)
MinTailLoop_NoActiveTest(g, i, min_tail) ==
  IF i >= NABD_MAX_CONSUMERS THEN min_tail
  ELSE MinTailLoop_NoActiveTest(g, i + 1,
                                IF g[i].tail < min_tail THEN g[i].tail
                                ELSE min_tail)

RECURSIVE MinTailLoop(_, _, _)
MinTailLoop(g, i, min_tail) ==
  IF i >= NABD_MAX_CONSUMERS THEN min_tail
  ELSE MinTailLoop(g, i + 1,
                   IF g[i].active # 0 /\ g[i].tail < min_tail THEN g[i].tail
                   ELSE min_tail)

\* nabd_min_tail: the least tail over the active groups, and the
\* control-block tail when the handle has no table or no group is active
nabd_min_tail(g, c, h) ==
  IF ~h.multi THEN c.tail
  ELSE LET min_tail == MinTailLoop(g, 0, UINT64_MAX)
       IN IF min_tail = UINT64_MAX THEN c.tail ELSE min_tail

(* ---------------------------------------------------------------------- *)
(* Statistics and fill level                                              *)
(* ---------------------------------------------------------------------- *)

\* A uint64_t of the statistics is kept as four 16-bit limbs, the least
\* significant first, so that head - tail wraps at 2^64 as in the code.
ToU64(n) == <<n % U16, (n \div U16) % U16, 0, 0>>

\* a - b on uint64_t
Sub64(a, b) ==
  LET d1 == a[1] - b[1]
      d2 == a[2] - b[2] - (IF d1 < 0 THEN 1 ELSE 0)
      d3 == a[3] - b[3] - (IF d2 < 0 THEN 1 ELSE 0)
      d4 == a[4] - b[4] - (IF d3 < 0 THEN 1 ELSE 0)
  IN <<d1 % U16, d2 % U16, d3 % U16, d4 % U16>>

\* a * m on uint64_t, for a multiplier below 2^15
Mul64(a, m) ==
  LET p1 == a[1] * m
      p2 == a[2] * m + p1 \div U16
      p3 == a[3] * m + p2 \div U16
      p4 == a[4] * m + p3 \div U16
  IN <<p1 % U16, p2 % U16, p3 % U16, p4 % U16>>

\* a / c on uint64_t, for a divisor that is a power of two up to 2^16 (the
\* capacities of the model)
Div64(a, c) ==
  LET Limb(k) == a[k] \div c + (IF k < 4 THEN (a[k + 1] % c) * (U16 \div c) ELSE 0)
  IN <<Limb(1), Limb(2), Limb(3), Limb(4)>>

\* (int)a: the low 32 bits as a signed integer
ToInt(a) ==
  IF a[2] >= U16 \div 2 THEN (a[2] - U16) * U16 + a[1] ELSE a[2] * U16 + a[1]

\* nabd_stats
nabd_stats(c, h) ==
  [head |-> ToU64(c.head), tail |-> ToU64(c.tail), capacity |-> h.capacity,
   slot_size |-> h.slot_size, used |-> Sub64(ToU64(c.head), ToU64(c.tail))]

\* nabd_fill_level
nabd_fill_level(c, h) ==
  LET stats == nabd_stats(c, h)
  IN IF stats.capacity = 0 THEN 0
     ELSE ToInt(Div64(Mul64(stats.used, 100), stats.capacity))

\* nabd_is_pressured
nabd_is_pressured(c, h, threshold) ==
  LET level == nabd_fill_level(c, h)
  IN IF level < 0 THEN level
     ELSE IF level >= threshold THEN 1 ELSE 0

(* ---------------------------------------------------------------------- *)
(* Checkpoints                                                            *)
(* ---------------------------------------------------------------------- *)

\* A uint64_t or uint32_t of a checkpoint is the set of the positions of
\* its 1 bits (bit 0 the least significant), which keeps all 64 bits.
ToBits(n) == {i \in 0 .. 30 : (n \div Pow2(i)) % 2 = 1}

RECURSIVE FromBits(_)
FromBits(b) ==
  IF b = {} THEN 0
  ELSE LET i == CHOOSE x \in b : TRUE IN Pow2(i) + FromBits(b \ {i})

\* a ^ b
Xor(a, b) == (a \ b) \cup (b \ a)

\* the bytes of NABD_CHECKPOINT_MAGIC, 0x434B5054414244, least significant
\* first
CheckpointMagicBytes == <<68, 66, 65, 84, 80, 75, 67, 0>>

NABD_CHECKPOINT_MAGIC ==
  UNION {{8 * (k - 1) + i : i \in ToBits(CheckpointMagicBytes[k])} :
           k \in 1 .. Len(CheckpointMagicBytes)}

compute_checksum_NoTail(ckpt) ==
  LET sum == Xor(Xor(ckpt.magic, ckpt.timestamp), ckpt.group_id)
  IN {(i + 13) % 64 : i \in sum}

\* compute_checksum: the xor of the fields, rotated left by 13 in 64 bits
compute_checksum(ckpt) ==
  LET sum == Xor(Xor(Xor(ckpt.magic, ckpt.timestamp), ckpt.group_id), ckpt.tail)
  IN {(i + 13) % 64 : i \in sum}

\* the bit offsets of the fields of nabd_checkpoint_t and its size in bits
CkptLayout ==
  [magic |-> 0, timestamp |-> 64, group_id |-> 128, reserved |-> 160,
   tail |-> 192, checksum |-> 256, sizeof |-> 320]

\* fwrite(&ckpt, sizeof(ckpt), 1, f): the bits of the file
CkptWrite(ckpt) ==
  UNION {{CkptLayout[f] + i : i \in ckpt[f]} :
           f \in {"magic", "timestamp", "group_id", "reserved", "tail",
                  "checksum"}}

\* fread(ckpt, sizeof(*ckpt), 1, f): the fields found in the bits of the file
CkptRead(file) ==
  LET Field(off, width) == {i - off : i \in file \cap (off .. off + width - 1)}
  IN [magic |-> Field(CkptLayout.magic, 64),
      timestamp |-> Field(CkptLayout.timestamp, 64),
      group_id |-> Field(CkptLayout.group_id, 32),
      reserved |-> Field(CkptLayout.reserved, 32),
      tail |-> Field(CkptLayout.tail, 64),
      checksum |-> Field(CkptLayout.checksum, 64)]

\* nabd_checkpoint_save on handle c at time timestamp: the checkpoint and
\* the file written
nabd_checkpoint_save(g, c, timestamp) ==
  LET fields == [magic |-> NABD_CHECKPOINT_MAGIC, timestamp |-> timestamp,
                 group_id |-> ToBits(c.group_id), reserved |-> {},
                 tail |-> ToBits(g[c.group].tail), checksum |-> {}]
      ckpt == [fields EXCEPT !.checksum = compute_checksum(fields)]
  IN [ret |-> "OK", ckpt |-> ckpt, file |-> CkptWrite(ckpt)]

\* nabd_checkpoint_load: the return code and *ckpt
nabd_checkpoint_load(file) ==
  IF file = NoFile THEN [ret |-> "NOTFOUND", ckpt |-> <<>>]
  ELSE LET ckpt == CkptRead(file)
       IN IF ckpt.magic # NABD_CHECKPOINT_MAGIC
          THEN [ret |-> "CORRUPTED", ckpt |-> ckpt]
          ELSE IF ckpt.checksum # compute_checksum(ckpt)
          THEN [ret |-> "CORRUPTED", ckpt |-> ckpt]
          ELSE [ret |-> "OK", ckpt |-> ckpt]

nabd_consumer_resume_NoClamp(g, c, h, ckpt, i) ==
  LET group_id == FromBits(ckpt.group_id)
      created == nabd_consumer_create(g, c, group_id, i)
      joined == nabd_consumer_join(g, h, group_id)
      handle == IF i # -1 THEN created.handle ELSE joined.handle
      g1 == IF i # -1 THEN created.groups ELSE g
  IN IF ~h.multi \/ (i = -1 /\ joined.ret # "OK")
     THEN [ret |-> "NULL", handle |-> <<>>, groups |-> g]
     ELSE [ret |-> "OK", handle |-> handle,
           groups |-> [g1 EXCEPT ![handle.group].tail = FromBits(ckpt.tail)]]

\* nabd_consumer_resume, where i is the slot the scan of
\* nabd_consumer_create claims (-1: none, and the group is joined): the
\* handle and the group table
nabd_consumer_resume(g, c, h, ckpt, i) ==
  LET group_id == FromBits(ckpt.group_id)
      created == nabd_consumer_create(g, c, group_id, i)
      joined == nabd_consumer_join(g, h, group_id)
      handle == IF i # -1 THEN created.handle ELSE joined.handle
      g1 == IF i # -1 THEN created.groups ELSE g
      tail == FromBits(ckpt.tail)
  IN IF ~h.multi \/ (i = -1 /\ joined.ret # "OK")
     THEN [ret |-> "NULL", handle |-> <<>>, groups |-> g]
     ELSE [ret |-> "OK", handle |-> handle,
           groups |-> [g1 EXCEPT ![handle.group].tail =
                                    IF tail > c.head THEN c.head ELSE tail]]

\* nabd_diagnostic_t after memset and diag->state = NABD_STATE_CORRUPTED
NoDiag ==
  [state |-> "STATE_CORRUPTED", head |-> 0, tail |-> 0, pending |-> 0,
   magic_ok |-> 0, version_ok |-> 0, capacity |-> 0, slot_size |-> 0]

nabd_diagnose_VersionFirst(found, c) ==
  LET magic_ok == IF c.magic = NABD_MAGIC THEN 1 ELSE 0
      version_ok == IF c.version = NABD_VERSION THEN 1 ELSE 0
      pending == IF c.head >= c.tail THEN c.head - c.tail ELSE 0
  IN IF ~found
     THEN [ret |-> "NOTFOUND", diag |-> [NoDiag EXCEPT !.state = "STATE_INCOMPLETE"]]
     ELSE IF version_ok = 0
     THEN [ret |-> "OK",
           diag |-> [NoDiag EXCEPT !.magic_ok = magic_ok,
                                   !.state = "STATE_VERSION_ERR"]]
     ELSE IF magic_ok = 0
     THEN [ret |-> "OK", diag |-> [NoDiag EXCEPT !.version_ok = 1]]
     ELSE [ret |-> "OK",
           diag |-> [state |-> IF pending > c.capacity THEN "STATE_CORRUPTED"
                               ELSE IF pending = 0 THEN "STATE_EMPTY"
                               ELSE "STATE_OK",
                     head |-> c.head, tail |-> c.tail, pending |-> pending,
                     magic_ok |-> 1, version_ok |-> 1,
                     capacity |-> c.capacity, slot_size |-> c.slot_size]]

\* nabd_diagnose: found says whether shm_open(name, O_RDONLY) succeeds;
\* the return code and *diag
nabd_diagnose(found, c) ==
  LET magic_ok == IF c.magic = NABD_MAGIC THEN 1 ELSE 0
      version_ok == IF c.version = NABD_VERSION THEN 1 ELSE 0
      pending == IF c.head >= c.tail THEN c.head - c.tail ELSE 0
  IN IF ~found
     THEN [ret |-> "NOTFOUND", diag |-> [NoDiag EXCEPT !.state = "STATE_INCOMPLETE"]]
     ELSE IF magic_ok = 0
     THEN [ret |-> "OK", diag |-> NoDiag]
     ELSE IF version_ok = 0
     THEN [ret |-> "OK",
           diag |-> [NoDiag EXCEPT !.magic_ok = 1, !.state = "STATE_VERSION_ERR"]]
     ELSE [ret |-> "OK",
           diag |-> [state |-> IF pending > c.capacity THEN "STATE_CORRUPTED"
                               ELSE IF pending = 0 THEN "STATE_EMPTY"
                               ELSE "STATE_OK",
                     head |-> c.head, tail |-> c.tail, pending |-> pending,
                     magic_ok |-> 1, version_ok |-> 1,
                     capacity |-> c.capacity, slot_size |-> c.slot_size]]

nabd_recover_ForceFirst(found, c, force) ==
  LET d == nabd_diagnose(found, c)
  IN IF d.ret # "OK" THEN [ret |-> d.ret, ctrl |-> c]
     ELSE IF force THEN [ret |-> "OK", ctrl |-> [c EXCEPT !.tail = c.head]]
     ELSE IF d.diag.state \in {"STATE_OK", "STATE_EMPTY"}
     THEN [ret |-> "OK", ctrl |-> c]
     ELSE IF d.diag.state = "STATE_CORRUPTED"
     THEN [ret |-> "CORRUPTED", ctrl |-> c]
     ELSE [ret |-> "OK", ctrl |-> c]

\* nabd_recover: the return code and the control block it leaves.  (The
\* STATE_INCOMPLETE branch is never entered: nabd_diagnose reports that
\* state only together with a return code other than NABD_OK.)
nabd_recover(found, c, force) ==
  LET d == nabd_diagnose(found, c)
  IN IF d.ret # "OK" THEN [ret |-> d.ret, ctrl |-> c]
     ELSE IF d.diag.state \in {"STATE_OK", "STATE_EMPTY"}
     THEN [ret |-> "OK", ctrl |-> c]
     ELSE IF d.diag.state = "STATE_CORRUPTED" /\ ~force
     THEN [ret |-> "CORRUPTED", ctrl |-> c]
     ELSE IF force THEN [ret |-> "OK", ctrl |-> [c EXCEPT !.tail = c.head]]
     ELSE [ret |-> "OK", ctrl |-> c]

\* nabd_open without NABD_CREATE on an existing region: errno and the new
\* handle, which caches the geometry the control block stores
nabd_open_attach(c) ==
  IF c.magic # NABD_MAGIC
  THEN [ret |-> "EINVAL", handle |-> <<>>]
  ELSE [ret |-> "OK",
        handle |-> [capacity |-> c.capacity, slot_size |-> c.slot_size,
                    mask |-> c.capacity - 1, reserved |-> 0, reserve_pos |-> 0,
                    multi |-> FALSE]]

\* ftruncate(fd, sizeof(nabd_control_t) + capacity * slot_size) on a ring of
\* slots of the same slot_size: the slots that fit are kept, the file is
\* extended with zero bytes
Ftruncate(s, capacity, slot_size) ==
  [i \in 0 .. capacity - 1 |->
     IF i \in DOMAIN s THEN s[i]
     ELSE [length |-> 0, flags |-> 0, sequence |-> 0,
           payload |-> Fill(0, slot_size - SizeofSlotHeader)]]

\* nabd_open with NABD_CREATE on a name that exists: shm_open with O_EXCL
\* fails with EEXIST, the object is opened without it, and the is_create
\* branch then sizes the file and initialises the control block
nabd_open_create_existing(c, s, capacity, slot_size) ==
  [ret |-> "OK",
   ctrl |-> OpenCtrl(capacity, slot_size),
   slots |-> Ftruncate(s, OpenCapacity(capacity), OpenSlotSize(slot_size)),
   handle |-> OpenHandle(capacity, slot_size)]

(* ---------------------------------------------------------------------- *)
(* Inputs                                                                 *)
(* ---------------------------------------------------------------------- *)

\* the capacity and slot_size arguments given to nabd_open; slot_size 65544
\* is the smallest whose payload area holds a length the uint16_t header
\* field cannot
CapArgs == {1, 2}
SlotSizeArgs == {8, U16 + SizeofSlotHeader}
SmallSlotSizeArgs == {8}

\* message lengths tried on a handle: short, the largest the slot takes and
\* one more
Lens(h) == {1, MaxPayload(h), MaxPayload(h) + 1}

\* caller data: the byte strings pushed or written into a reserved slot
Data(h) ==
  {Fill(1, 1), Fill(2, MaxPayload(h)), Fill(2, MaxPayload(h) + 1)}

\* caller buffer capacities given to pop
BufLens == {0, U16 - 1}

\* group ids given to consumer_create
GroupIds == {7}

(* ---------------------------------------------------------------------- *)
(* Spec: the calls as atomic actions                                      *)
(* ---------------------------------------------------------------------- *)

NoRsv ==
  [held |-> FALSE, slot |-> 0, len |-> 0, written |-> FALSE, data |-> <<>>,
   clean |-> FALSE, ctrl |-> <<>>, slots |-> <<>>]

\* a call changed the region behind an outstanding reservation
Dirty(r) ==
  IF r.held THEN [r EXCEPT !.clean = FALSE, !.ctrl = <<>>, !.slots = <<>>]
  ELSE r

\* a process outside any call: its locals are dead, ret is what its last
\* call returned
ProdIdle(ret) ==
  [pc |-> "idle", head |-> 0, tail |-> 0, data |-> <<>>, len |-> 0, ret |-> ret]

ConsIdle(ret) ==
  [pc |-> "idle", head |-> 0, tail |-> 0, msg_len |-> 0, buflen |-> 0,
   data |-> <<>>, ret |-> ret]

InitWith(capacity, slot_size, multi) ==
  /\ ctrl = OpenCtrl(capacity, slot_size)
  /\ slots = OpenSlots(capacity, slot_size)
  /\ groups = EmptyGroups
  /\ q = [OpenHandle(capacity, slot_size) EXCEPT !.multi = multi]
  /\ chs = <<>>
  /\ last = NoCall
  /\ rsv = NoRsv
  /\ pushed = <<>>
  /\ popped = <<>>
  /\ prod = ProdIdle("none")
  /\ ckpt_file = NoFile
  /\ cons = ConsIdle("none")

Init == \E capacity \in CapArgs, slot_size \in SmallSlotSizeArgs :
          InitWith(capacity, slot_size, FALSE)

Push ==
  \E data \in Data(q) :
    LET len == BytesLen(data)
        r == nabd_push(ctrl, slots, q, data, len)
    IN /\ r.ctrl.head <= MaxHead
       /\ ctrl' = r.ctrl
       /\ slots' = r.slots
       /\ last' = Result("push", r.ret, 0, len, len, <<>>, ctrl.head)
       /\ rsv' = IF r.ret = "OK" THEN Dirty(rsv) ELSE rsv
       /\ UNCHANGED <<groups, q, chs, pushed, popped, prod, cons,
                      ckpt_file>>

Pop ==
  \E buflen \in BufLens :
    LET r == nabd_pop(ctrl, slots, q, buflen)
    IN /\ r.ctrl.tail <= MaxHead
       /\ ctrl' = r.ctrl
       /\ last' = Result("pop", r.ret,
                         IF last.op = "pop" /\ last.ret = "TOOBIG" THEN 1 ELSE 0,
                         buflen, r.len, r.data, ctrl.tail)
       /\ rsv' = IF r.ret = "OK" THEN Dirty(rsv) ELSE rsv
       /\ UNCHANGED <<slots, groups, q, chs, pushed, popped, prod, cons,
                      ckpt_file>>

Reserve ==
  \E len \in Lens(q) :
    LET r == nabd_reserve(ctrl, q, len)
    IN /\ q' = r.q
       /\ last' = Result("reserve", r.ret, 0, len, len, <<>>, r.slot)
       /\ rsv' = IF r.ret = "OK"
                 THEN [held |-> TRUE, slot |-> r.slot, len |-> len,
                       written |-> FALSE, data |-> <<>>, clean |-> TRUE,
                       ctrl |-> ctrl, slots |-> slots]
                 ELSE rsv
       /\ UNCHANGED <<ctrl, slots, groups, chs, pushed, popped, prod, cons,
                      ckpt_file>>

\* the caller writes its bytes through the pointer nabd_reserve returned
WriteReserved ==
  /\ rsv.held
  /\ ~rsv.written
  /\ \E data \in Data(q) :
       /\ BytesLen(data) <= rsv.len
       /\ slots' = [slots EXCEPT ![rsv.slot].payload =
                      memcpy(@, data, BytesLen(data))]
       /\ rsv' = [rsv EXCEPT !.written = TRUE, !.data = data]
       /\ last' = Result("write", "OK", 0, BytesLen(data), BytesLen(data),
                         <<>>, rsv.slot)
  /\ UNCHANGED <<ctrl, groups, q, chs, pushed, popped, prod, cons,
                      ckpt_file>>

Commit ==
  \E len \in Lens(q) :
    LET r == nabd_commit(ctrl, slots, q, len)
    IN /\ len <= MaxPayload(q)
       /\ ctrl' = r.ctrl
       /\ slots' = r.slots
       /\ q' = r.q
       /\ last' = Result("commit", r.ret,
                         IF rsv.held /\ rsv.clean /\ rsv.written THEN 1 ELSE 0,
                         len, len, <<>>, q.reserve_pos)
       /\ rsv' = IF r.ret = "OK" THEN NoRsv ELSE rsv
       /\ UNCHANGED <<groups, chs, pushed, popped, prod, cons,
                      ckpt_file>>

Peek ==
  LET r == nabd_peek(ctrl, slots, q)
  IN /\ last' = Result("peek", r.ret, 0, 0, r.len,
                       IF r.ret = "OK"
                       THEN TakeBytes(slots[r.slot].payload, r.len)
                       ELSE <<>>,
                       r.slot)
     /\ last' # last
     /\ UNCHANGED <<ctrl, slots, groups, q, chs, rsv, pushed, popped, prod, cons,
                      ckpt_file>>

Release ==
  LET r == nabd_release(ctrl)
  IN /\ r.ctrl.tail <= MaxHead
     /\ ctrl' = r.ctrl
     /\ last' = Result("release", r.ret,
                       IF last.op = "peek" /\ last.ret = "OK" THEN last.val ELSE 0,
                       0, 0, <<>>, ctrl.tail)
     /\ rsv' = Dirty(rsv)
     /\ UNCHANGED <<slots, groups, q, chs, pushed, popped, prod, cons,
                      ckpt_file>>

Next ==
  \/ Push
  \/ Pop
  \/ Reserve
  \/ WriteReserved
  \/ Commit
  \/ Peek
  \/ Release

Spec == Init /\ [][Next]_vars

(* ---------------------------------------------------------------------- *)
(* Claims checked under Spec                                              *)
(* ---------------------------------------------------------------------- *)

\* head - tail >= capacity in uint64_t arithmetic, written out
HeadMinusTailGECapacity ==
  \/ ctrl.head >= ctrl.tail /\ ctrl.head - ctrl.tail >= ctrl.capacity
  \/ ctrl.head < ctrl.tail

C4_FullAsStated ==
  [][(Push /\ HeadMinusTailGECapacity)
       => (last'.ret = "FULL" /\ UNCHANGED <<ctrl, slots>>)]_vars

\* C4 amended: a push of len <= slot_size - 8 returns FULL, changing neither
\* head, tail nor any slot, exactly when head - tail >= capacity; otherwise
\* it returns OK and advances head by one.
C4_FullPush ==
  [][(Push /\ last'.arg <= ctrl.slot_size - 8)
       => IF HeadMinusTailGECapacity
          THEN last'.ret = "FULL" /\ UNCHANGED <<ctrl, slots>>
          ELSE /\ last'.ret = "OK"
               /\ ctrl'.head = ctrl.head + 1
               /\ ctrl'.tail = ctrl.tail]_vars

\* C4 witness: capacity pushes and no pop, then a push that returned FULL
C4_Witness ==
  /\ last.op = "push" /\ last.ret = "FULL"
  /\ ctrl.head = ctrl.capacity /\ ctrl.tail = 0

\* C5: empty() returns 1 exactly when head == tail and full() returns 1
\* exactly when head - tail == capacity, in every reachable state.
C5_Oracles ==
  /\ (nabd_empty(ctrl) = 1) <=> (ctrl.head = ctrl.tail)
  /\ (nabd_full(ctrl, q) = 1) <=> (ctrl.head - ctrl.tail = ctrl.capacity)

\* C6 as stated: push and reserve with len > slot_size - 8 return TOOBIG
\* and change nothing; with len == slot_size - 8 they succeed on a queue
\* that is not full.
C6_TooBigAsStated ==
  [][(Push \/ Reserve)
       => /\ last'.arg > ctrl.slot_size - 8
               => last'.ret = "TOOBIG" /\ UNCHANGED <<ctrl, slots, q>>
          /\ (last'.arg = ctrl.slot_size - 8 /\ ~HeadMinusTailGECapacity)
               => last'.ret = "OK"]_vars

\* C6 amended: the same, for push and for reserve on a handle that has no
\* reservation outstanding.
C6_TooBig ==
  [][(Push \/ (Reserve /\ q.reserved = 0))
       => /\ last'.arg > ctrl.slot_size - 8
               => last'.ret = "TOOBIG" /\ UNCHANGED <<ctrl, slots, q>>
          /\ (last'.arg = ctrl.slot_size - 8 /\ ~HeadMinusTailGECapacity)
               => last'.ret = "OK"]_vars

\* C6 witness: a reserve of slot_size - 7 bytes was refused as too big
C6_Witness ==
  /\ last.op = "reserve" /\ last.ret = "TOOBIG"
  /\ last.arg = ctrl.slot_size - 7
  /\ q.reserved = 0

\* C9: reserve(len), writing len bytes through the returned pointer and
\* commit(len), with no other call in between, leave head, tail, the slots
\* and the handle as push(data, len) from the state before the reserve.
C9_ReserveCommitIsPush ==
  [][(Commit /\ rsv.held /\ rsv.clean /\ rsv.written
        /\ last'.arg = rsv.len /\ BytesLen(rsv.data) = rsv.len)
       => LET h == [q EXCEPT !.reserved = 0]
              r == nabd_push(rsv.ctrl, rsv.slots, h, rsv.data, rsv.len)
          IN /\ r.ret = "OK" /\ last'.ret = "OK"
             /\ ctrl' = r.ctrl
             /\ slots' = r.slots
             /\ q'.reserved = 0
             /\ nabd_pop([ctrl' EXCEPT !.tail = ctrl.head], slots', q', U16 - 1).data
                  = rsv.data]_vars

\* C9 witness: an undisturbed reservation of the largest length, committed
C9_Witness ==
  /\ last.op = "commit" /\ last.ret = "OK" /\ last.val = 1
  /\ last.arg = ctrl.slot_size - 8
  /\ slots[get_slot(q, last.idx)].length = last.arg
  /\ ctrl.head = last.idx + 1

\* C10: reserve while a reservation is outstanding and commit while none is
\* return INVALID and change neither the region nor the handle; a reserve
\* that fails with FULL or TOOBIG leaves the handle unreserved.
C10_ReservationDiscipline ==
  [][/\ (Reserve /\ q.reserved # 0)
          => last'.ret = "INVALID" /\ UNCHANGED <<ctrl, slots, q>>
     /\ (Commit /\ q.reserved = 0)
          => last'.ret = "INVALID" /\ UNCHANGED <<ctrl, slots, q>>
     /\ (Reserve /\ last'.ret \in {"FULL", "TOOBIG"})
          => q'.reserved = 0 /\ UNCHANGED <<ctrl, slots>>]_vars

\* C10 witness: a second reserve on a reserved handle was refused
C10_Witness ==
  /\ last.op = "reserve" /\ last.ret = "INVALID"
  /\ q.reserved = 1

(* ---------------------------------------------------------------------- *)
(* SpecMC: push and pop together with a consumer group                    *)
(* ---------------------------------------------------------------------- *)

\* A region whose handle exposes the group table.  nabd_open leaves
\* q->multi NULL; the table's set-up is taken from the specification
\* (section 4.4: the table is written when the region is created).
InitMC == \E capacity \in CapArgs, slot_size \in SlotSizeArgs :
            InitWith(capacity, slot_size, TRUE)

ClaimChoices_AnySlot(g) == DOMAIN g

\* The slots a scan of consumer_create can end up claiming.  The claim is a
\* weak compare-and-swap, which may fail on a free slot: the scan claims
\* the first free slot on which it does not fail, or none (-1) when it
\* fails on every free slot.
ClaimChoices(g) ==
  LET free == {j \in DOMAIN g : g[j].active = 0}
  IN {j \in free : Cardinality({k \in free : k < j}) <= MaxSpurious}
     \cup (IF Cardinality(free) <= MaxSpurious THEN {-1} ELSE {})

\* nabd_consumer_create
ConsumerCreate ==
  /\ Len(chs) < MaxCreate
  /\ \E group_id \in GroupIds :
       IF ~q.multi
       THEN /\ last' = Result("consumer_create", "EINVAL", 0, group_id, 0, <<>>, 0)
            /\ last' # last
            /\ UNCHANGED <<groups, chs>>
       ELSE \E i \in ClaimChoices(groups) :
              IF i = -1
              THEN /\ last' = Result("consumer_create", "ENOMEM", 0, group_id,
                                     0, <<>>, 0)
                   /\ last' # last
                   /\ UNCHANGED <<groups, chs>>
              ELSE LET r == nabd_consumer_create(groups, ctrl, group_id, i)
                   IN /\ groups' = r.groups
                      /\ chs' = Append(chs, r.handle)
                      /\ last' = Result("consumer_create", "OK", 0, group_id,
                                        0, <<>>, i)
  /\ UNCHANGED <<ctrl, slots, q, rsv, pushed, popped, prod, cons,
                      ckpt_file>>

ConsumerPop ==
  \E k \in 1 .. Len(chs), buflen \in BufLens :
    LET gi == chs[k].group
        r == nabd_consumer_pop(groups, gi, ctrl, slots, q, buflen)
    IN /\ groups' = r.groups
       /\ last' = Result("consumer_pop", r.ret,
                         IF last.op = "consumer_pop" /\ last.ret = "TOOBIG"
                            /\ last.idx = k
                         THEN 1 ELSE 0,
                         buflen, r.len, r.data, k)
       /\ UNCHANGED <<ctrl, slots, q, chs, rsv, pushed, popped, prod, cons,
                      ckpt_file>>

NextMC ==
  \/ Push
  \/ Pop
  \/ ConsumerCreate
  \/ ConsumerPop

SpecMC == InitMC /\ [][NextMC]_vars

C16_NoOverwrite ==
  [][(Push /\ last'.ret = "OK")
       => \A j \in DOMAIN groups :
            groups[j].active = 1 => groups[j].tail > ctrl.head - ctrl.capacity]_vars

\* C17: whenever a group is active, push returns FULL exactly when
\* head - min_tail >= capacity, min_tail being the least tail over the
\* active groups.
C17_FullOnMinTail ==
  [][(Push /\ last'.arg <= ctrl.slot_size - 8
        /\ \E j \in DOMAIN groups : groups[j].active = 1)
       => (last'.ret = "FULL"
             <=> ctrl.head - nabd_min_tail(groups, ctrl, q) >= ctrl.capacity)]_vars

DataPP(h) == {<<>>, Fill(1, 1), Fill(2, MaxPayload(h))}

InitPP == \E capacity \in CapArgs, slot_size \in SlotSizeArgs :
            InitWith(capacity, slot_size, FALSE)

PPPush ==
  /\ Len(pushed) < MaxPushPP
  /\ \E data \in DataPP(q) :
       LET len == BytesLen(data)
           r == nabd_push(ctrl, slots, q, data, len)
       IN /\ ctrl' = r.ctrl
          /\ slots' = r.slots
          /\ last' = Result("push", r.ret, 0, len, len, <<>>, ctrl.head)
          /\ pushed' = IF r.ret = "OK"
                       THEN Append(pushed, [len |-> len, data |-> data])
                       ELSE pushed
  /\ UNCHANGED <<groups, q, chs, rsv, popped, prod, cons,
                      ckpt_file>>

\* pop into a buffer that holds the largest message the slot takes
PPPop ==
  LET buflen == MaxPayload(q)
      r == nabd_pop(ctrl, slots, q, buflen)
  IN /\ ctrl' = r.ctrl
     /\ last' = Result("pop", r.ret, 0, buflen, r.len, r.data, ctrl.tail)
     /\ popped' = IF r.ret = "OK"
                  THEN Append(popped, [len |-> r.len, data |-> r.data])
                  ELSE popped
     /\ UNCHANGED <<slots, groups, q, chs, rsv, pushed, prod, cons,
                      ckpt_file>>

NextPP ==
  \/ PPPush
  \/ PPPop

SpecPP == InitPP /\ [][NextPP]_vars

\* C7: for every slot_size and every len with 0 <= len <= slot_size - 8, a
\* successful push of len bytes is popped with length len and the same
\* bytes; a zero-length push stores header length 0.
C7_LengthRoundTrip ==
  /\ \A k \in 1 .. Len(popped) :
       /\ k <= Len(pushed)
       /\ popped[k].len = pushed[k].len
       /\ popped[k].data = pushed[k].data
  /\ (last.op = "push" /\ last.ret = "OK" /\ last.arg = 0)
       => slots[get_slot(q, last.idx)].length = 0

(* ---------------------------------------------------------------------- *)
(* SpecSPSC: one producer in nabd_push, one consumer in nabd_pop          *)
(* ---------------------------------------------------------------------- *)

\* Each action is one access to shared memory, together with the local
\* computation that follows it.  The payload and header accesses are plain
\* memory accesses ordered by the release store of head (tail) and the
\* acquire load of it on the other side, so the steps are interleaved in
\* program order.

\* caller data given to push: one byte, the largest the slot takes, and one
\* byte more
DataSPSC(h) == {Fill(1, 1), Fill(2, MaxPayload(h)), Fill(2, MaxPayload(h) + 1)}

InitSPSC == \E capacity \in CapArgs, slot_size \in SlotSizeArgs :
              InitWith(capacity, slot_size, FALSE)

\* push entered: the length check and the relaxed load of head
PushLoadHead ==
  /\ prod.pc = "idle"
  /\ Len(pushed) < MaxPushSPSC
  /\ \E data \in DataSPSC(q) :
       LET len == BytesLen(data)
       IN prod' = IF len > MaxPayload(q)
                  THEN ProdIdle("TOOBIG")
                  ELSE [pc |-> "load_tail", head |-> ctrl.head, tail |-> 0,
                        data |-> data, len |-> len, ret |-> "none"]
  /\ UNCHANGED <<ctrl, slots, groups, q, chs, last, rsv, pushed, popped, cons,
                      ckpt_file>>

\* the acquire load of tail and the full check
PushLoadTail ==
  /\ prod.pc = "load_tail"
  /\ prod' = IF FullCheck(prod.head, ctrl.tail, q.capacity)
             THEN ProdIdle("FULL")
             ELSE [prod EXCEPT !.pc = "write_payload", !.tail = ctrl.tail]
  /\ UNCHANGED <<ctrl, slots, groups, q, chs, last, rsv, pushed, popped, cons,
                      ckpt_file>>

\* memcpy(payload, data, len)
PushWritePayload ==
  /\ prod.pc = "write_payload"
  /\ slots' = [slots EXCEPT ![get_slot(q, prod.head)].payload =
                 memcpy(@, prod.data, prod.len)]
  /\ prod' = [prod EXCEPT !.pc = "write_header"]
  /\ UNCHANGED <<ctrl, groups, q, chs, last, rsv, pushed, popped, cons,
                      ckpt_file>>

\* hdr->length, hdr->flags, hdr->sequence
PushWriteHeader ==
  /\ prod.pc = "write_header"
  /\ slots' = [slots EXCEPT ![get_slot(q, prod.head)].length = ToU16(prod.len),
                            ![get_slot(q, prod.head)].flags = 0,
                            ![get_slot(q, prod.head)].sequence = prod.head]
  /\ prod' = [prod EXCEPT !.pc = "store_head"]
  /\ UNCHANGED <<ctrl, groups, q, chs, last, rsv, pushed, popped, cons,
                      ckpt_file>>

\* the release store of head + 1; push returns OK
PushStoreHead ==
  /\ prod.pc = "store_head"
  /\ ctrl' = [ctrl EXCEPT !.head = prod.head + 1]
  /\ pushed' = Append(pushed, [len |-> prod.len, data |-> prod.data])
  /\ prod' = ProdIdle("OK")
  /\ UNCHANGED <<slots, groups, q, chs, last, rsv, popped, cons,
                      ckpt_file>>

\* pop entered with a buffer of *len bytes: the relaxed load of tail
PopLoadTail ==
  /\ cons.pc = "idle"
  /\ \E buflen \in BufLens :
       cons' = [pc |-> "load_head", head |-> 0, tail |-> ctrl.tail,
                msg_len |-> 0, buflen |-> buflen, data |-> <<>>,
                ret |-> "none"]
  /\ UNCHANGED <<ctrl, slots, groups, q, chs, last, rsv, pushed, popped, prod,
                      ckpt_file>>

\* the acquire load of head and the empty check
PopLoadHead ==
  /\ cons.pc = "load_head"
  /\ cons' = IF cons.tail = ctrl.head
             THEN ConsIdle("EMPTY")
             ELSE [cons EXCEPT !.pc = "read_header", !.head = ctrl.head]
  /\ UNCHANGED <<ctrl, slots, groups, q, chs, last, rsv, pushed, popped, prod,
                      ckpt_file>>

\* msg_len = hdr->length and the buffer check
PopReadHeader ==
  /\ cons.pc = "read_header"
  /\ LET msg_len == slots[get_slot(q, cons.tail)].length
     IN cons' = IF msg_len > cons.buflen
                THEN ConsIdle("TOOBIG")
                ELSE [cons EXCEPT !.pc = "copy", !.msg_len = msg_len]
  /\ UNCHANGED <<ctrl, slots, groups, q, chs, last, rsv, pushed, popped, prod,
                      ckpt_file>>

PopCopy_StoreFirst ==
  /\ cons.pc = "copy"
  /\ ctrl' = [ctrl EXCEPT !.tail = cons.tail + 1]
  /\ cons' = [cons EXCEPT !.pc = "store_tail",
                          !.data = TakeBytes(slots[get_slot(q, cons.tail)].payload,
                                             cons.msg_len)]
  /\ UNCHANGED <<slots, groups, q, chs, last, rsv, pushed, popped, prod,
                 ckpt_file>>

\* memcpy(buf, payload, msg_len)
PopCopy ==
  /\ cons.pc = "copy"
  /\ cons' = [cons EXCEPT !.pc = "store_tail",
                          !.data = TakeBytes(slots[get_slot(q, cons.tail)].payload,
                                             cons.msg_len)]
  /\ UNCHANGED <<ctrl, slots, groups, q, chs, last, rsv, pushed, popped, prod,
                      ckpt_file>>

\* the release store of tail + 1; pop returns OK
PopStoreTail ==
  /\ cons.pc = "store_tail"
  /\ ctrl' = [ctrl EXCEPT !.tail = cons.tail + 1]
  /\ popped' = Append(popped, [len |-> cons.msg_len, data |-> cons.data])
  /\ cons' = ConsIdle("OK")
  /\ UNCHANGED <<slots, groups, q, chs, last, rsv, pushed, prod,
                      ckpt_file>>

NextSPSC ==
  \/ PushLoadHead
  \/ PushLoadTail
  \/ PushWritePayload
  \/ PushWriteHeader
  \/ PushStoreHead
  \/ PopLoadTail
  \/ PopLoadHead
  \/ PopReadHeader
  \/ PopCopy
  \/ PopStoreTail

SpecSPSC == InitSPSC /\ [][NextSPSC]_vars

\* C1: with one producer and one consumer using only push and pop, under
\* every interleaving of their steps, the k-th successful pop returns the
\* length and the payload of the k-th successful push.
C1_Fifo ==
  /\ Len(popped) <= Len(pushed)
  /\ \A k \in 1 .. Len(popped) :
       /\ popped[k].len = pushed[k].len
       /\ popped[k].data = pushed[k].data

\* The same for the messages whose length the uint16_t header field holds:
\* the k-th successful pop returns the k-th successful push whenever that
\* push was of fewer than 65536 bytes, and the pops and pushes that
\* returned OK are counted by tail and head.
FifoBelowU16 ==
  /\ Len(popped) <= Len(pushed)
  /\ Len(pushed) = ctrl.head
  /\ Len(popped) = ctrl.tail
  /\ \A k \in 1 .. Len(popped) :
       pushed[k].len < U16
         => popped[k].len = pushed[k].len /\ popped[k].data = pushed[k].data

\* the producer is about to write, or has written, bytes of slot prod.head
\* that it has not yet published
InWriteWindow == prod.pc \in {"write_payload", "write_header", "store_head"}

\* the consumer is between its acquire load of head and its release store
\* of tail, holding the message of slot cons.tail
InReadWindow == cons.pc \in {"read_header", "copy", "store_tail"}

\* C3: the producer writes header or payload bytes only to a logical index
\* i with i >= head and i - capacity < tail at the time of the write; the
\* consumer reads only a logical index i with tail <= i < head; and the
\* producer never writes a physical slot while the consumer is between its
\* acquire load of head and its release store of tail for a message in
\* that slot.
C3_NoOverlap ==
  [][/\ (PushWritePayload \/ PushWriteHeader)
          => /\ prod.head >= ctrl.head
             /\ prod.head - ctrl.capacity < ctrl.tail
             /\ ~(InReadWindow
                    /\ get_slot(q, cons.tail) = get_slot(q, prod.head))
     /\ (PopReadHeader \/ PopCopy)
          => /\ ctrl.tail <= cons.tail
             /\ cons.tail < ctrl.head]_vars

\* C3 witness: after the indices have wrapped, the producer has written
\* the payload of one slot while the consumer is copying from another
C3_Witness ==
  /\ prod.pc = "write_header" /\ cons.pc = "copy"
  /\ prod.head >= ctrl.capacity
  /\ get_slot(q, prod.head) # get_slot(q, cons.tail)
  /\ slots[get_slot(q, prod.head)].payload # slots[get_slot(q, cons.tail)].payload

(* ---------------------------------------------------------------------- *)
(* SpecPub: what is written before head is stored                         *)
(* ---------------------------------------------------------------------- *)

\* nabd_push on a handle that holds no reservation: a reservation is ended
\* by nabd_commit or by dropping the handle
PubPush == q.reserved = 0 /\ Len(pushed) < MaxPushPub /\ PPPush

\* nabd_push by a producer that stops before the release store of head,
\* after the memcpy of the payload or after the header as well; its handle
\* dies with it and the next caller has opened the region again
PushCrash ==
  \E data \in DataPP(q), stage \in {"payload", "header"} :
    LET len == BytesLen(data)
        r == nabd_push(ctrl, slots, q, data, len)
        i == get_slot(q, ctrl.head)
    IN /\ r.ret = "OK"
       /\ slots' = IF stage = "header" THEN r.slots
                   ELSE [slots EXCEPT ![i].payload = r.slots[i].payload]
       /\ q' = nabd_open_attach(ctrl).handle
       /\ rsv' = NoRsv
       /\ last' = Result("push_crash", stage, 0, len, len, <<>>, ctrl.head)
       /\ UNCHANGED <<ctrl, groups, chs, pushed, popped, prod, cons,
                      ckpt_file>>

\* the handle is dropped with whatever reservation it holds and the region
\* is opened again, without NABD_CREATE
Attach ==
  LET r == nabd_open_attach(ctrl)
  IN /\ r.ret = "OK"
     /\ q' = r.handle
     /\ rsv' = NoRsv
     /\ last' = Result("attach", r.ret, IF q.reserved # 0 THEN 1 ELSE 0,
                       0, 0, <<>>, q.reserve_pos)
     /\ last' # last
     /\ UNCHANGED <<ctrl, slots, groups, chs, pushed, popped, prod, cons,
                      ckpt_file>>

NextPub ==
  \/ PubPush
  \/ PPPop
  \/ Peek
  \/ Reserve
  \/ WriteReserved
  \/ PushCrash
  \/ Attach

SpecPub == Init /\ [][NextPub]_vars

\* the message published at logical index i, as its slot holds it
Published(i) ==
  [len |-> ToU16(pushed[i + 1].len),
   data |-> TakeBytes(pushed[i + 1].data, ToU16(pushed[i + 1].len))]

PeekN ==
  LET r == nabd_peek(ctrl, slots, q)
      n == IF last.op = "peek" THEN last.val + 1 ELSE 1
  IN /\ last' = Result("peek", r.ret, IF n > MaxPeek THEN MaxPeek ELSE n,
                       0, r.len,
                       IF r.ret = "OK"
                       THEN TakeBytes(slots[r.slot].payload, r.len)
                       ELSE <<>>,
                       r.slot)
     /\ UNCHANGED <<ctrl, slots, groups, q, chs, rsv, pushed, popped, prod, cons,
                      ckpt_file>>

NextPeek ==
  \/ Push
  \/ Pop
  \/ PeekN
  \/ Release

SpecPeek == Init /\ [][NextPeek]_vars

\* C12: on a non-empty queue, peeks made in a row return the same slot,
\* length and bytes and leave tail unchanged; one release after them
\* advances tail by exactly 1 and consumes the message pop would have
\* returned.
C12_PeekRelease ==
  [][/\ PeekN => UNCHANGED <<ctrl, slots>>
     /\ (PeekN /\ ctrl.tail < ctrl.head)
          => LET p == nabd_pop(ctrl, slots, q, U16 - 1)
             IN /\ last'.ret = "OK"
                /\ last'.idx = ctrl.tail % ctrl.capacity
                /\ last'.len = p.len
                /\ last'.data = p.data
     /\ (PeekN /\ last.op = "peek" /\ last.ret = "OK")
          => /\ last'.ret = "OK"
             /\ last'.idx = last.idx
             /\ last'.len = last.len
             /\ last'.data = last.data
     /\ (Release /\ last.op = "peek" /\ last.ret = "OK")
          => LET p == nabd_pop(ctrl, slots, q, U16 - 1)
             IN /\ ctrl'.tail = ctrl.tail + 1
                /\ ctrl'.head = ctrl.head
                /\ slots' = slots
                /\ p.ret = "OK"
                /\ ctrl' = p.ctrl
                /\ last.len = p.len
                /\ last.data = p.data]_vars

\* C12 witness: two or more peeks in a row, then one release, after which
\* the next message of a queue that held two is at the tail
C12_Witness ==
  /\ last.op = "release" /\ last.val >= 2
  /\ ctrl.tail = last.idx + 1
  /\ ctrl.head = ctrl.tail + 1
  /\ ctrl.capacity = 2

(* ---------------------------------------------------------------------- *)
(* SpecOpen: opening a region that exists                                 *)
(* ---------------------------------------------------------------------- *)

\* the magic and version found in the control block of a shared-memory
\* object of the given name: written by this library, or by something else
MagicsFound == {NABD_MAGIC, "OTHER_MAGIC"}
VersionsFound == {NABD_VERSION, NABD_VERSION + 1}

\* slot_size arguments of a second open with NABD_CREATE: the ones that
\* nabd_open turns into the slot size the region was created with
SameSlotSizeArgs == {s \in {8, 16} : OpenSlotSize(s) = ctrl.slot_size}

InitOpen ==
  \E capacity \in CapArgs, slot_size \in SmallSlotSizeArgs,
     magic \in MagicsFound, version \in VersionsFound :
    /\ ctrl = [OpenCtrl(capacity, slot_size) EXCEPT !.magic = magic,
                                                   !.version = version]
    /\ slots = OpenSlots(capacity, slot_size)
    /\ groups = EmptyGroups
    /\ q = OpenHandle(capacity, slot_size)
    /\ chs = <<>>
    /\ last = NoCall
    /\ rsv = NoRsv
    /\ pushed = <<>>
    /\ popped = <<>>
    /\ prod = ProdIdle("none")
    /\ ckpt_file = NoFile
    /\ cons = ConsIdle("none")

\* nabd_open without NABD_CREATE; calls go to the new handle when there is one
OpenAttach ==
  LET r == nabd_open_attach(ctrl)
  IN /\ q' = IF r.ret = "OK" THEN r.handle ELSE q
     /\ last' = Result("attach", r.ret, 0, 0, 0, <<>>, 0)
     /\ UNCHANGED <<ctrl, slots, groups, chs, rsv, pushed, popped, prod, cons,
                      ckpt_file>>

\* nabd_open with NABD_CREATE while the name exists
OpenCreateExisting ==
  \E capacity \in CapArgs, slot_size \in SameSlotSizeArgs :
    LET r == nabd_open_create_existing(ctrl, slots, capacity, slot_size)
    IN /\ ctrl' = r.ctrl
       /\ slots' = r.slots
       /\ q' = r.handle
       /\ last' = Result("create_existing", r.ret, 0, capacity, slot_size, <<>>, 0)
       /\ UNCHANGED <<groups, chs, rsv, pushed, popped, prod, cons,
                      ckpt_file>>

NextOpen ==
  \/ Push
  \/ Pop
  \/ OpenAttach
  \/ OpenCreateExisting

SpecOpen == InitOpen /\ [][NextOpen]_vars

\* C13: open with CREATE on a name that exists leaves the region's head,
\* tail, capacity, slot_size and slot contents unchanged, and the new
\* handle adopts the region's stored capacity and slot_size.
C13_CreateExistingAttaches ==
  [][OpenCreateExisting
       => /\ ctrl'.head = ctrl.head
          /\ ctrl'.tail = ctrl.tail
          /\ ctrl'.capacity = ctrl.capacity
          /\ ctrl'.slot_size = ctrl.slot_size
          /\ slots' = slots
          /\ q'.capacity = ctrl.capacity
          /\ q'.slot_size = ctrl.slot_size]_vars

\* C14: open without CREATE on a region whose magic is not NABD_MAGIC, or
\* whose version is not the expected one, fails: no handle is returned and
\* the region is unchanged.
C14_AttachValidates ==
  [][(OpenAttach /\ (ctrl.magic # NABD_MAGIC \/ ctrl.version # NABD_VERSION))
       => /\ last'.ret # "OK"
          /\ q' = q
          /\ UNCHANGED <<ctrl, slots>>]_vars

(* ---------------------------------------------------------------------- *)
(* SpecFan: one producer and several consumer groups                      *)
(* ---------------------------------------------------------------------- *)

\* In SpecFan popped[k] is the history of the group of handle chs[k]: the
\* value of head when the group was created, whether the group has used
\* release, and the messages its pops returned.

\* the consumer processes; each creates one group, and handle chs[k] is
\* the one of the k-th process to do so
FanConsumers == {1, 2}

FanCreate ==
  /\ Len(chs) + 1 \in FanConsumers
  /\ \E group_id \in GroupIds, i \in ClaimChoices(groups) :
       /\ i # -1
       /\ LET r == nabd_consumer_create(groups, ctrl, group_id, i)
          IN /\ groups' = r.groups
             /\ chs' = Append(chs, r.handle)
             /\ popped' = Append(popped, [start |-> ctrl.head, rel |-> FALSE,
                                          got |-> <<>>])
             /\ last' = Result("consumer_create", "OK", 0, group_id, 0, <<>>,
                               Len(chs) + 1)
  /\ UNCHANGED <<ctrl, slots, q, rsv, pushed, prod, cons,
                      ckpt_file>>

FanPop ==
  \E k \in 1 .. Len(chs) :
    LET gi == chs[k].group
        buflen == MaxPayload(q)
        r == nabd_consumer_pop(groups, gi, ctrl, slots, q, buflen)
    IN /\ groups' = r.groups
       /\ popped' = IF r.ret = "OK"
                    THEN [popped EXCEPT ![k].got =
                            Append(@, [len |-> r.len, data |-> r.data])]
                    ELSE popped
       /\ last' = Result("consumer_pop", r.ret, 0, buflen, r.len, r.data, k)
       /\ UNCHANGED <<ctrl, slots, q, chs, rsv, pushed, prod, cons,
                      ckpt_file>>

FanPeek ==
  \E k \in 1 .. Len(chs) :
    LET gi == chs[k].group
        r == nabd_consumer_peek(groups, gi, ctrl, slots, q)
    IN /\ last' = Result("consumer_peek", r.ret, 0, 0, r.len,
                         IF r.ret = "OK"
                         THEN TakeBytes(slots[r.slot].payload, r.len)
                         ELSE <<>>,
                         k)
       /\ UNCHANGED <<ctrl, slots, groups, q, chs, rsv, pushed, popped, prod,
                      cons,
                      ckpt_file>>

FanRelease ==
  \E k \in 1 .. Len(chs) :
    LET gi == chs[k].group
        r == nabd_consumer_release(groups, gi)
    IN /\ ~popped[k].rel
       /\ groups' = r.groups
       /\ popped' = [popped EXCEPT ![k].rel = TRUE]
       /\ last' = Result("consumer_release", r.ret, 0, 0, 0, <<>>, k)
       /\ UNCHANGED <<ctrl, slots, q, chs, rsv, pushed, prod, cons,
                      ckpt_file>>

NextFan ==
  \/ PPPush
  \/ FanCreate
  \/ FanPop
  \/ FanPeek
  \/ FanRelease

\* as InitMC, for the slot size whose lengths the header field holds
InitFan == \E capacity \in CapArgs, slot_size \in SmallSlotSizeArgs :
             InitWith(capacity, slot_size, TRUE)

SpecFan == InitFan /\ [][NextFan]_vars

\* the other groups' entries are untouched by a call on handle k
OthersUnchanged(k) ==
  \A j \in DOMAIN groups : j # chs[k].group => groups'[j] = groups[j]

\* C15: each group's k-th successful consumer_pop returns the k-th pushed
\* message when the group was created before the first push (and consumes
\* by pop only), and in general the message published at its tail; a pop,
\* peek or release in one group changes neither another group's tail nor
\* the control block.
C15_FanOut ==
  [][/\ (FanPop \/ FanPeek \/ FanRelease)
          => ctrl' = ctrl /\ OthersUnchanged(last'.idx)
     /\ (FanPop /\ last'.ret = "OK")
          => LET k == last'.idx
                 t == groups[chs[k].group].tail
             IN /\ last'.len = Published(t).len
                /\ last'.data = Published(t).data
                /\ groups'[chs[k].group].tail = t + 1
                /\ (popped[k].start = 0 /\ ~popped[k].rel)
                     => Len(popped[k].got) = t]_vars

\* C15 witness: two groups created before the first push have each popped
\* two different messages
C15_Witness ==
  /\ Len(chs) = 2
  /\ chs[1].group # chs[2].group
  /\ \A k \in 1 .. 2 :
       /\ popped[k].start = 0 /\ ~popped[k].rel
       /\ Len(popped[k].got) = 2
       /\ popped[k].got[1] # popped[k].got[2]
       /\ popped[k].got[1].data = pushed[1].data
       /\ popped[k].got[2].data = pushed[2].data

\* C18: consumer_create sets the new group's tail to the value of head at
\* the creation, so the group's first successful consumer_pop returns the
\* first message published after the create and never an earlier one.
C18_StartsAtHead ==
  [][/\ FanCreate
          => LET gi == chs'[Len(chs')].group
             IN /\ groups'[gi].tail = ctrl.head
                /\ groups'[gi].active = 1
                /\ groups[gi].active = 0
     /\ (FanPop /\ last'.ret = "OK"
           /\ popped[last'.idx].got = <<>> /\ ~popped[last'.idx].rel)
          => LET k == last'.idx
                 start == popped[k].start
             IN /\ groups[chs[k].group].tail = start
                /\ start < Len(pushed)
                /\ last'.len = pushed[start + 1].len
                /\ last'.data = pushed[start + 1].data]_vars

\* C18 witness: a group created after the first push has popped once and
\* got the second message, which differs from the first
C18_Witness ==
  /\ last.op = "consumer_pop" /\ last.ret = "OK"
  /\ popped[last.idx].start = 1
  /\ Len(popped[last.idx].got) = 1
  /\ last.data = pushed[2].data
  /\ pushed[1].data # pushed[2].data

(* ---------------------------------------------------------------------- *)
(* SpecCreate: processes creating consumer groups concurrently            *)
(* ---------------------------------------------------------------------- *)

\* In SpecCreate cons[p] is the state of creator process p inside
\* nabd_consumer_create: idle, or holding the slot its CAS has claimed and
\* about to write the group's id and tail.  The scan up to the successful
\* CAS is one step: an active flag is never cleared, so a slot the scan
\* found active is still active when the scan ends.
Creators == {1, 2}

CreatorIdle == [pc |-> "idle", slot |-> 0, group_id |-> 0]

\* (the queue's capacity plays no part in nabd_consumer_create: one queue)
InitCreate ==
  \E capacity \in {x \in CapArgs : \A y \in CapArgs : x <= y},
     slot_size \in SmallSlotSizeArgs :
    /\ ctrl = OpenCtrl(capacity, slot_size)
    /\ slots = OpenSlots(capacity, slot_size)
    /\ groups = EmptyGroups
    /\ q = [OpenHandle(capacity, slot_size) EXCEPT !.multi = TRUE]
    /\ chs = <<>>
    /\ last = NoCall
    /\ rsv = NoRsv
    /\ pushed = <<>>
    /\ popped = <<>>
    /\ prod = ProdIdle("none")
    /\ ckpt_file = NoFile
    /\ cons = [p \in Creators |-> CreatorIdle]

\* The handles the creators hold, kept in the order of their slots (the
\* handles are separate allocations; the order is not program state).
HoldHandle(hs, h) ==
  LET k == Cardinality({n \in 1 .. Len(hs) : hs[n].group <= h.group})
  IN SubSeq(hs, 1, k) \o <<h>> \o SubSeq(hs, k + 1, Len(hs))

\* the scan of the table and the compare-and-swap that claims a slot
CreateClaim ==
  \E p \in Creators, group_id \in GroupIds, i \in ClaimChoices(groups) :
    /\ cons[p].pc = "idle"
    /\ IF i = -1
       THEN /\ last' = Result("consumer_create", "ENOMEM", 0, group_id, 0, <<>>, p)
            /\ UNCHANGED <<groups, cons>>
       ELSE /\ groups' = [groups EXCEPT ![i].active = 1]
            /\ cons' = [cons EXCEPT ![p] = [pc |-> "claimed", slot |-> i,
                                            group_id |-> group_id]]
            /\ last' = Result("consumer_create", "claimed", 0, group_id, 0, <<>>, p)
    /\ UNCHANGED <<ctrl, slots, q, chs, rsv, pushed, popped, prod,
                      ckpt_file>>

\* group_id, the load of head, the store of the group's tail, and the handle
CreateInit ==
  \E p \in Creators :
    /\ cons[p].pc = "claimed"
    /\ LET r == nabd_consumer_create(groups, ctrl, cons[p].group_id, cons[p].slot)
       IN /\ groups' = r.groups
          /\ chs' = HoldHandle(chs, r.handle)
          /\ last' = Result("consumer_create", "OK", 0, cons[p].group_id, 0,
                            <<>>, p)
    /\ cons' = [cons EXCEPT ![p] = CreatorIdle]
    /\ UNCHANGED <<ctrl, slots, q, rsv, pushed, popped, prod,
                      ckpt_file>>

NextCreate ==
  \/ CreateClaim
  \/ CreateInit

SpecCreate == InitCreate /\ [][NextCreate]_vars

\* the slots held: by the handles returned and by the creators that have
\* claimed one and not yet returned
SlotsHeld ==
  [k \in 1 .. Len(chs) |-> chs[k].group]
    \o [k \in 1 .. Cardinality({p \in Creators : cons[p].pc = "claimed"}) |->
          IF k = 1
          THEN cons[CHOOSE p \in Creators :
                      /\ cons[p].pc = "claimed"
                      /\ \A r \in Creators : cons[r].pc = "claimed" => p <= r].slot
          ELSE cons[CHOOSE p \in Creators :
                      /\ cons[p].pc = "claimed"
                      /\ \A r \in Creators : cons[r].pc = "claimed" => p >= r].slot]

JoinGroupIds == {0, 2}

\* chs holds the open handles; a closed handle leaves it
JoinCreate ==
  /\ Len(chs) + 1 \in FanConsumers
  /\ Cardinality({j \in DOMAIN groups : groups[j].active # 0}) + 1 \in FanConsumers
  /\ \E group_id \in JoinGroupIds, i \in ClaimChoices(groups) :
       /\ i # -1
       /\ LET r == nabd_consumer_create(groups, ctrl, group_id, i)
          IN /\ groups' = r.groups
             /\ chs' = Append(chs, r.handle)
             /\ last' = Result("consumer_create", "OK", ctrl.head, group_id, 0,
                               <<>>, i)
  /\ UNCHANGED <<ctrl, slots, q, rsv, pushed, popped, prod, cons,
                      ckpt_file>>

\* last.val is the tail of the handle's group when the handle is closed,
\* last.arg the handle's group_id, last.idx the handle's slot of the table
ConsumerClose ==
  \E k \in 1 .. Len(chs) :
    LET r == nabd_consumer_close(groups)
    IN /\ groups' = r.groups
       /\ chs' = SubSeq(chs, 1, k - 1) \o SubSeq(chs, k + 1, Len(chs))
       /\ last' = Result("consumer_close", r.ret, groups[chs[k].group].tail,
                         chs[k].group_id, 0, <<>>, chs[k].group)
       /\ UNCHANGED <<ctrl, slots, q, rsv, pushed, popped, prod, cons,
                      ckpt_file>>

\* last.val is the tail of the group the new handle is bound to
ConsumerJoin ==
  /\ Len(chs) + 1 \in FanConsumers
  /\ \E group_id \in JoinGroupIds :
       LET r == nabd_consumer_join(groups, q, group_id)
       IN /\ chs' = IF r.ret = "OK" THEN Append(chs, r.handle) ELSE chs
          /\ last' = Result("consumer_join", r.ret,
                            IF r.ret = "OK" THEN groups[r.handle.group].tail
                            ELSE 0,
                            group_id, 0, <<>>,
                            IF r.ret = "OK" THEN r.handle.group ELSE 0)
          /\ last' # last
  /\ UNCHANGED <<ctrl, slots, groups, q, rsv, pushed, popped, prod, cons,
                      ckpt_file>>

NextJoin ==
  \/ PPPush
  \/ JoinCreate
  \/ ConsumerPop
  \/ ConsumerClose
  \/ ConsumerJoin

SpecJoin == InitFan /\ [][NextJoin]_vars

\* C20: consumer_close changes nothing in the shared region (the group
\* stays active with its group_id and tail, so the other handles of the
\* group work as before), and a consumer_join with the closed handle's
\* group_id then succeeds and continues from the tail the group had.
C20_CloseKeepsGroup ==
  [][/\ ConsumerClose
          => /\ UNCHANGED <<ctrl, slots, groups>>
             /\ groups[last'.idx].active = 1
             /\ groups[last'.idx].group_id = last'.arg
     /\ (ConsumerJoin /\ last.op = "consumer_close" /\ last'.arg = last.arg)
          => /\ last'.ret = "OK"
             /\ last'.val = last.val]_vars

(* ---------------------------------------------------------------------- *)
(* SpecMin: nabd_min_tail beside the single consumer and two groups        *)
(* ---------------------------------------------------------------------- *)

\* last.val is what nabd_min_tail returns
MinTail ==
  /\ last' = Result("min_tail", "OK", nabd_min_tail(groups, ctrl, q), 0, 0,
                    <<>>, 0)
  /\ UNCHANGED <<ctrl, slots, groups, q, chs, rsv, pushed, popped, prod, cons,
                      ckpt_file>>

\* consumer_pop into a buffer that holds the largest message
MinConsumerPop ==
  \E k \in 1 .. Len(chs) :
    LET buflen == MaxPayload(q)
        r == nabd_consumer_pop(groups, chs[k].group, ctrl, slots, q, buflen)
    IN /\ groups' = r.groups
       /\ last' = Result("consumer_pop", r.ret, 0, buflen, r.len, r.data, k)
       /\ UNCHANGED <<ctrl, slots, q, chs, rsv, pushed, popped, prod, cons,
                      ckpt_file>>

NextMin ==
  \/ PubPush
  \/ PPPop
  \/ JoinCreate
  \/ MinConsumerPop
  \/ MinTail

SpecMin == InitFan /\ [][NextMin]_vars

ActiveGroups == {j \in DOMAIN groups : groups[j].active # 0}

\* C21: min_tail returns the least tail of the active groups, and the
\* control-block tail when no group is active.
C21_MinTail ==
  last.op = "min_tail"
    => IF ActiveGroups = {} THEN last.val = ctrl.tail
       ELSE /\ \E j \in ActiveGroups : last.val = groups[j].tail
            /\ \A j \in ActiveGroups : last.val <= groups[j].tail

\* C21 witness: two groups have each consumed two messages, the single
\* consumer none, and min_tail returns 2
C21_Witness ==
  /\ last.op = "min_tail" /\ last.val = 2
  /\ Cardinality(ActiveGroups) = 2
  /\ \A j \in ActiveGroups : groups[j].tail = 2
  /\ ctrl.tail = 0

(* ---------------------------------------------------------------------- *)
(* SpecDiag: nabd_diagnose and nabd_recover on a region by its name       *)
(* ---------------------------------------------------------------------- *)

\* the name of the region, and a name no shared-memory object has
QueueName == "/q"
Names == {QueueName, "/none"}

\* head and tail found in the control block of the object
PositionsFound == 0 .. 3

\* the region as diagnose may find it: created by nabd_open and used, or
\* with a control block something else has written
InitDiag ==
  \E capacity \in CapArgs, slot_size \in SmallSlotSizeArgs,
     magic \in MagicsFound, version \in VersionsFound,
     head \in PositionsFound, tail \in PositionsFound :
    /\ ctrl = [OpenCtrl(capacity, slot_size) EXCEPT !.magic = magic,
                                                   !.version = version,
                                                   !.head = head,
                                                   !.tail = tail]
    /\ slots = OpenSlots(capacity, slot_size)
    /\ groups = EmptyGroups
    /\ q = OpenHandle(capacity, slot_size)
    /\ chs = <<>>
    /\ last = NoCall
    /\ rsv = NoRsv
    /\ pushed = <<>>
    /\ popped = <<>>
    /\ prod = ProdIdle("none")
    /\ ckpt_file = NoFile
    /\ cons = ConsIdle("none")

\* last.data is *diag, last.arg the name
Diagnose ==
  \E name \in Names :
    LET r == nabd_diagnose(name = QueueName, ctrl)
    IN /\ last' = Result("diagnose", r.ret, 0, name, 0, r.diag, 0)
       /\ UNCHANGED <<ctrl, slots, groups, q, chs, rsv, pushed, popped, prod,
                      cons,
                      ckpt_file>>

\* last.val is force, last.arg the name
Recover ==
  \E name \in Names, force \in BOOLEAN :
    LET r == nabd_recover(name = QueueName, ctrl, force)
    IN /\ ctrl' = r.ctrl
       /\ last' = Result("recover", r.ret, IF force THEN 1 ELSE 0, name, 0,
                         <<>>, 0)
       /\ UNCHANGED <<slots, groups, q, chs, rsv, pushed, popped, prod, cons,
                      ckpt_file>>

\* (with tail ahead of head nabd_pop finds the queue non-empty for ever)
DiagPop == Len(popped) < MaxPushPub /\ PPPop

NextDiag ==
  \/ PubPush
  \/ DiagPop
  \/ Diagnose
  \/ Recover

SpecDiag == InitDiag /\ [][NextDiag]_vars

\* pending = head - tail, taken as 0 when head < tail
Pending == IF ctrl.head < ctrl.tail THEN 0 ELSE ctrl.head - ctrl.tail

\* the state of the first rule that matches
StateByRule ==
  CASE ctrl.magic # NABD_MAGIC -> "STATE_CORRUPTED"
    [] ctrl.magic = NABD_MAGIC /\ ctrl.version # NABD_VERSION -> "STATE_VERSION_ERR"
    [] OTHER -> CASE Pending > ctrl.capacity -> "STATE_CORRUPTED"
                  [] Pending = 0 -> "STATE_EMPTY"
                  [] OTHER -> "STATE_OK"

\* C22: diagnose classifies an existing region by the first matching rule
\* (bad magic: CORRUPTED; bad version: VERSION_ERR; pending > capacity:
\* CORRUPTED; pending = 0: EMPTY; otherwise OK), returns NOTFOUND when the
\* region does not exist, never modifies the region, and reports a freshly
\* created region EMPTY with magic_ok and version_ok set.
C22_Diagnose ==
  [][Diagnose
       => /\ UNCHANGED <<ctrl, slots, groups>>
          /\ last'.arg # QueueName => last'.ret = "NOTFOUND"
          /\ last'.arg = QueueName
               => /\ last'.ret = "OK"
                  /\ last'.data.state = StateByRule
                  /\ (last'.data.magic_ok = 1) <=> (ctrl.magic = NABD_MAGIC)
                  /\ (ctrl.magic = NABD_MAGIC)
                       => ((last'.data.version_ok = 1)
                             <=> (ctrl.version = NABD_VERSION))
                  /\ (\E capacity \in CapArgs, slot_size \in SmallSlotSizeArgs :
                        ctrl = OpenCtrl(capacity, slot_size))
                       => /\ last'.data.state = "STATE_EMPTY"
                          /\ last'.data.magic_ok = 1
                          /\ last'.data.version_ok = 1]_vars

\* C22 witness: a region with good magic and version whose tail is ahead of
\* its head is reported empty with pending 0
C22_Witness ==
  /\ last.op = "diagnose" /\ last.ret = "OK"
  /\ ctrl.head < ctrl.tail
  /\ last.data.state = "STATE_EMPTY" /\ last.data.pending = 0
  /\ last.data.magic_ok = 1 /\ last.data.version_ok = 1

\* C23: after pushes have made the region STATE_OK with pending > 0,
\* recover with force discards the pending messages: tail = head, head
\* unchanged, and diagnose then reports STATE_EMPTY with pending 0.
C23_ForceDiscards ==
  [][(Recover /\ last'.arg = QueueName /\ last'.val = 1
        /\ ctrl.head = Len(pushed) /\ ctrl.tail = 0
        /\ nabd_diagnose(TRUE, ctrl).diag.state = "STATE_OK"
        /\ nabd_diagnose(TRUE, ctrl).diag.pending > 0)
       => /\ ctrl'.head = ctrl.head
          /\ ctrl'.tail = ctrl'.head
          /\ nabd_diagnose(TRUE, ctrl').diag.state = "STATE_EMPTY"
          /\ nabd_diagnose(TRUE, ctrl').diag.pending = 0]_vars

Timestamps == {ToBits(1), {50, 51, 63}}

\* the queue is used until the checkpoint is taken
CkptPush == ckpt_file = NoFile /\ PubPush

CkptCreate == ckpt_file = NoFile /\ chs = <<>> /\ JoinCreate

CkptPop == ckpt_file = NoFile /\ MinConsumerPop

\* last.data is the checkpoint written
CheckpointSave ==
  \E k \in 1 .. Len(chs), timestamp \in Timestamps :
    LET r == nabd_checkpoint_save(groups, chs[k], timestamp)
    IN /\ ckpt_file = NoFile
       /\ ckpt_file' = r.file
       /\ last' = Result("checkpoint_save", r.ret, 0, 0, 0, r.ckpt, k)
       /\ UNCHANGED <<ctrl, slots, groups, q, chs, rsv, pushed, popped, prod,
                      cons>>

\* one bit of the file written, outside the padding field, is inverted
FlipBit ==
  \E p \in (0 .. CkptLayout.sizeof - 1)
             \ (CkptLayout.reserved .. CkptLayout.tail - 1) :
    /\ last.op = "checkpoint_save"
    /\ ckpt_file' = Xor(ckpt_file, {p})
    /\ last' = Result("flip", "OK", 0, 0, 0, last.data, p)
    /\ UNCHANGED <<ctrl, slots, groups, q, chs, rsv, pushed, popped, prod,
                   cons>>

\* last.data is *ckpt
CheckpointLoad ==
  LET r == nabd_checkpoint_load(ckpt_file)
  IN /\ last.op \in {"checkpoint_save", "flip"}
     /\ last' = Result("checkpoint_load", r.ret, 0, 0, 0, r.ckpt, 0)
     /\ UNCHANGED <<ctrl, slots, groups, q, chs, rsv, pushed, popped, prod,
                    cons, ckpt_file>>

NextCkpt ==
  \/ CkptPush
  \/ CkptCreate
  \/ CkptPop
  \/ CheckpointSave
  \/ FlipBit
  \/ CheckpointLoad

SpecCkpt == InitFan /\ [][NextCkpt]_vars

\* C25: checkpoint_load of the file checkpoint_save wrote returns OK with a
\* checkpoint equal field for field to the one saved; with any single bit
\* of the file outside the padding inverted it returns CORRUPTED.
C25_CheckpointRoundTrip ==
  [][/\ (CheckpointLoad /\ last.op = "checkpoint_save")
          => /\ last'.ret = "OK"
             /\ \A f \in {"magic", "timestamp", "group_id", "tail", "checksum"} :
                  last'.data[f] = last.data[f]
             /\ FromBits(last'.data.tail) = groups[chs[last.idx].group].tail
             /\ FromBits(last'.data.group_id) = chs[last.idx].group_id
     /\ (CheckpointLoad /\ last.op = "flip") => last'.ret = "CORRUPTED"]_vars

\* C25 witness: a checkpoint taken at tail 2, at a time with high bits
\* set, has been saved and loaded
C25_Witness ==
  /\ last.op = "checkpoint_load" /\ last.ret = "OK"
  /\ ckpt_file # NoFile
  /\ FromBits(last.data.tail) = 2
  /\ last.data.timestamp = {50, 51, 63}

(* ---------------------------------------------------------------------- *)
(* SpecResume: a group resumed from its checkpoint                        *)
(* ---------------------------------------------------------------------- *)

ResumeCreate ==
  /\ ckpt_file = NoFile
  /\ JoinCreate

\* the queue is closed, unlinked and created again with the same geometry;
\* the checkpoint file stays
Restart ==
  /\ ckpt_file # NoFile
  /\ \E capacity \in {ctrl.capacity}, slot_size \in {ctrl.slot_size} :
       /\ ctrl' = OpenCtrl(capacity, slot_size)
       /\ slots' = OpenSlots(capacity, slot_size)
       /\ q' = [OpenHandle(capacity, slot_size) EXCEPT !.multi = q.multi]
  /\ groups' = EmptyGroups
  /\ chs' = <<>>
  /\ pushed' = <<>>
  /\ last' = Result("open", "OK", 1, 0, 0, <<>>, 0)
  /\ UNCHANGED <<rsv, popped, prod, cons, ckpt_file>>

\* checkpoint_load and, when it returns OK, consumer_resume; last.val is
\* the tail of the checkpoint, last.idx the new handle
ConsumerResume ==
  /\ Len(chs) + 1 \in FanConsumers
  /\ LET l == nabd_checkpoint_load(ckpt_file)
     IN /\ l.ret = "OK"
        /\ \E i \in ClaimChoices(groups) :
             LET r == nabd_consumer_resume(groups, ctrl, q, l.ckpt, i)
             IN /\ r.ret = "OK"
                /\ groups' = r.groups
                /\ chs' = Append(chs, r.handle)
                /\ last' = Result("consumer_resume", r.ret,
                                  FromBits(l.ckpt.tail),
                                  FromBits(l.ckpt.group_id), 0, <<>>,
                                  Len(chs) + 1)
  /\ UNCHANGED <<ctrl, slots, q, rsv, pushed, popped, prod, cons, ckpt_file>>

NextResume ==
  \/ PubPush
  \/ ResumeCreate
  \/ MinConsumerPop
  \/ CheckpointSave
  \/ Restart
  \/ ConsumerResume

SpecResume == InitFan /\ [][NextResume]_vars

CrashPopLoadTail == chs = <<>> /\ PopLoadTail

CrashCreate == chs = <<>> /\ cons.pc = "idle" /\ JoinCreate

\* the copies made by nabd_pop (grp FALSE) or by nabd_consumer_pop (TRUE)
Copies(grp) ==
  LET Test(e) == ("group" \in DOMAIN e) = grp IN SelectSeq(popped, Test)

\* how many of the first n copies belong to calls that completed
Completed(x, n) ==
  Cardinality({k \in 1 .. n : "crashed" \notin DOMAIN x[k]})

\* the consumer stops after memcpy, before the release store of tail
PopCrash ==
  /\ cons.pc = "store_tail"
  /\ Len(Copies(FALSE)) - Completed(Copies(FALSE), Len(Copies(FALSE))) < MaxCrash
  /\ popped' = Append(popped, [len |-> cons.msg_len, data |-> cons.data,
                               crashed |-> TRUE])
  /\ cons' = ConsIdle("crashed")
  /\ UNCHANGED <<ctrl, slots, groups, q, chs, last, rsv, pushed, prod,
                 ckpt_file>>

\* nabd_consumer_pop entered: the relaxed load of the group's tail
ConsumerPopLoadTail ==
  /\ cons.pc = "idle"
  /\ \E k \in 1 .. Len(chs), buflen \in BufLens :
       cons' = [pc |-> "group_load_head", head |-> 0,
                tail |-> groups[chs[k].group].tail, msg_len |-> 0,
                buflen |-> buflen, data |-> <<>>, ret |-> "none"]
  /\ UNCHANGED <<ctrl, slots, groups, q, chs, last, rsv, pushed, popped, prod,
                 ckpt_file>>

\* the acquire load of head and the empty check
ConsumerPopLoadHead ==
  /\ cons.pc = "group_load_head"
  /\ cons' = IF cons.tail >= ctrl.head
             THEN ConsIdle("EMPTY")
             ELSE [cons EXCEPT !.pc = "group_read_header", !.head = ctrl.head]
  /\ UNCHANGED <<ctrl, slots, groups, q, chs, last, rsv, pushed, popped, prod,
                 ckpt_file>>

\* msg_len = hdr->length and the buffer check
ConsumerPopReadHeader ==
  /\ cons.pc = "group_read_header"
  /\ LET msg_len == slots[get_slot(q, cons.tail)].length
     IN cons' = IF msg_len > cons.buflen
                THEN ConsIdle("TOOBIG")
                ELSE [cons EXCEPT !.pc = "group_copy", !.msg_len = msg_len]
  /\ UNCHANGED <<ctrl, slots, groups, q, chs, last, rsv, pushed, popped, prod,
                 ckpt_file>>

\* memcpy(buf, payload, msg_len)
ConsumerPopCopy ==
  /\ cons.pc = "group_copy"
  /\ cons' = [cons EXCEPT !.pc = "group_store_tail",
                          !.data = TakeBytes(slots[get_slot(q, cons.tail)].payload,
                                             cons.msg_len)]
  /\ UNCHANGED <<ctrl, slots, groups, q, chs, last, rsv, pushed, popped, prod,
                 ckpt_file>>

\* the release store of the group's tail; consumer_pop returns OK
ConsumerPopStoreTail ==
  /\ cons.pc = "group_store_tail"
  /\ groups' = [groups EXCEPT ![chs[1].group].tail = cons.tail + 1]
  /\ popped' = Append(popped, [len |-> cons.msg_len, data |-> cons.data,
                               group |-> chs[1].group])
  /\ cons' = ConsIdle("OK")
  /\ UNCHANGED <<ctrl, slots, q, chs, last, rsv, pushed, prod, ckpt_file>>

\* the consumer stops after memcpy, before the store of the group's tail
ConsumerPopCrash ==
  /\ cons.pc = "group_store_tail"
  /\ Len(Copies(TRUE)) - Completed(Copies(TRUE), Len(Copies(TRUE))) < MaxCrash
  /\ popped' = Append(popped, [len |-> cons.msg_len, data |-> cons.data,
                               group |-> chs[1].group, crashed |-> TRUE])
  /\ cons' = ConsIdle("crashed")
  /\ UNCHANGED <<ctrl, slots, groups, q, chs, last, rsv, pushed, prod,
                 ckpt_file>>

NextCrash ==
  \/ PubPush
  \/ CrashCreate
  \/ CrashPopLoadTail
  \/ PopLoadHead
  \/ PopReadHeader
  \/ PopCopy
  \/ PopStoreTail
  \/ PopCrash
  \/ ConsumerPopLoadTail
  \/ ConsumerPopLoadHead
  \/ ConsumerPopReadHeader
  \/ ConsumerPopCopy
  \/ ConsumerPopStoreTail
  \/ ConsumerPopCrash

SpecCrash == InitFan /\ [][NextCrash]_vars

\* the logical index the consumer stood at before its first copy
FirstIndex(grp) ==
  IF grp THEN groups[chs[1].group].tail - Completed(Copies(TRUE), Len(Copies(TRUE)))
  ELSE ctrl.tail - Completed(Copies(FALSE), Len(Copies(FALSE)))

\* C27: a consumer that stops after the copy and before the store of the
\* tail leaves the tail (and the region) unchanged, and the next pop, or
\* consumer_pop in the group, returns the same message again: every copy
\* is of the message that follows the completed calls, so a crash repeats
\* a message and none is skipped.
C27_CrashRedelivers ==
  /\ [][(PopCrash \/ ConsumerPopCrash)
          => UNCHANGED <<ctrl, slots, groups>>]_vars
  /\ [](\A grp \in BOOLEAN :
          LET x == Copies(grp)
          IN /\ (~grp) => FirstIndex(grp) = 0
             /\ \A k \in 1 .. Len(x) :
                  LET m == Published(FirstIndex(grp) + Completed(x, k - 1))
                  IN x[k].len = m.len /\ x[k].data = m.data)

\* C27 witness: the single consumer stopped after copying the first
\* message and the next pop returned it again; then the same happened in
\* a group that started at the second message
C27_Witness ==
  /\ Len(Copies(FALSE)) >= 2
  /\ "crashed" \in DOMAIN Copies(FALSE)[1]
  /\ "crashed" \notin DOMAIN Copies(FALSE)[2]
  /\ Len(Copies(TRUE)) = 2
  /\ "crashed" \in DOMAIN Copies(TRUE)[1]
  /\ "crashed" \notin DOMAIN Copies(TRUE)[2]
  /\ Copies(TRUE)[1].data = Copies(TRUE)[2].data
  /\ Copies(TRUE)[1].data # Copies(FALSE)[1].data

(* ---------------------------------------------------------------------- *)
(* SpecFill: the fill level beside push, pop, peek and release             *)
(* ---------------------------------------------------------------------- *)

\* thresholds given to nabd_is_pressured
Thresholds == {0, 50, 100}

\* last.val is what nabd_fill_level returns
FillLevel ==
  /\ last' = Result("fill_level", "OK", nabd_fill_level(ctrl, q), 0, 0, <<>>, 0)
  /\ UNCHANGED <<ctrl, slots, groups, q, chs, rsv, pushed, popped, prod, cons,
                 ckpt_file>>

\* last.val is what nabd_is_pressured returns, last.arg the threshold
IsPressured ==
  \E threshold \in Thresholds :
    /\ last' = Result("is_pressured", "OK",
                      nabd_is_pressured(ctrl, q, threshold), threshold, 0,
                      <<>>, 0)
    /\ UNCHANGED <<ctrl, slots, groups, q, chs, rsv, pushed, popped, prod,
                   cons, ckpt_file>>

NextFill ==
  \/ Push
  \/ Pop
  \/ Peek
  \/ Release
  \/ FillLevel
  \/ IsPressured

SpecFill == Init /\ [][NextFill]_vars

\* C28: fill_level returns 100 * (head - tail) / capacity truncated to an
\* integer, which lies in 0..100 in every state the public operations
\* reach; is_pressured(t) returns 1 exactly when fill_level >= t, else 0.
C28_FillLevel ==
  [][/\ FillLevel
          => /\ last'.val = (100 * (ctrl.head - ctrl.tail)) \div ctrl.capacity
             /\ last'.val \in 0 .. 100
     /\ IsPressured
          => last'.val = IF (100 * (ctrl.head - ctrl.tail)) \div ctrl.capacity
                              >= last'.arg
                         THEN 1 ELSE 0]_vars

(* ---------------------------------------------------------------------- *)
(* SpecWait: nabd_push_wait beside a consumer                             *)
(* ---------------------------------------------------------------------- *)

\* INT64_MAX: the greatest integer of the checker stands for it, and its
\* least one for INT64_MIN, so that now + timeout_us overflows as int64_t
\* does
INT64_MAX == 2147483647

MAX_SPINS == 100

\* In SpecWait prod is the producer process inside nabd_push_wait, with the
\* reading of CLOCK_MONOTONIC (now) that get_time_us gives it; start is the
\* time at which the deadline was computed.
WaitIdle(ret, now) ==
  [pc |-> "idle", ret |-> ret, now |-> now, timeout_us |-> 0, deadline |-> 0,
   start |-> 0, spin_count |-> 0, data |-> <<>>, len |-> 0]

\* messages given to push_wait: one that fits and one that does not
WaitData(h) == {Fill(1, 1), Fill(2, MaxPayload(h) + 1)}

TimeoutArgs == {-1, 0, 2, INT64_MAX}

InitWait ==
  \E capacity \in CapArgs, slot_size \in SmallSlotSizeArgs :
    /\ ctrl = OpenCtrl(capacity, slot_size)
    /\ slots = OpenSlots(capacity, slot_size)
    /\ groups = EmptyGroups
    /\ q = OpenHandle(capacity, slot_size)
    /\ chs = <<>>
    /\ last = NoCall
    /\ rsv = NoRsv
    /\ pushed = <<>>
    /\ popped = <<>>
    /\ prod = WaitIdle("none", 0)
    /\ ckpt_file = NoFile
    /\ cons = ConsIdle("none")

\* the value a + b takes on int64_t when it overflows (wrapped), for a, b > 0
WrapAdd(a, b) == (a - INT64_MAX - 1) + (b - INT64_MAX - 1)

\* one nabd_push attempt of the waiting producer
WaitAttempt == nabd_push(ctrl, slots, q, prod.data, prod.len)

\* push_wait called: the immediate attempt, and the non-blocking return
PushWaitCall ==
  /\ prod.pc = "idle"
  /\ Len(pushed) < MaxPushPub
  /\ \E data \in WaitData(q), timeout_us \in TimeoutArgs :
       LET len == BytesLen(data)
           r == nabd_push(ctrl, slots, q, data, len)
       IN /\ ctrl' = r.ctrl
          /\ slots' = r.slots
          /\ pushed' = IF r.ret = "OK"
                       THEN Append(pushed, [len |-> len, data |-> data])
                       ELSE pushed
          /\ prod' = IF r.ret # "FULL" \/ timeout_us = 0
                     THEN [WaitIdle(r.ret, prod.now) EXCEPT
                             !.timeout_us = timeout_us]
                     ELSE [WaitIdle("none", prod.now) EXCEPT
                             !.pc = "deadline", !.timeout_us = timeout_us,
                             !.data = data, !.len = len]
  /\ UNCHANGED <<groups, q, chs, last, rsv, popped, cons, ckpt_file>>

\* deadline = (timeout_us > 0) ? get_time_us() + timeout_us : 0.  The sum
\* is a signed addition: when it overflows the behaviour is undefined, and
\* the build either wraps it or traps.
PushWaitDeadline ==
  /\ prod.pc = "deadline"
  /\ \/ /\ prod.timeout_us <= 0
        /\ prod' = [prod EXCEPT !.pc = "retry", !.deadline = 0,
                                !.start = prod.now]
     \/ /\ prod.timeout_us > 0
        /\ prod.timeout_us <= INT64_MAX - prod.now
        /\ prod' = [prod EXCEPT !.pc = "retry", !.start = prod.now,
                                !.deadline = prod.now + prod.timeout_us]
     \/ /\ prod.timeout_us > 0
        /\ prod.timeout_us > INT64_MAX - prod.now
        /\ \/ prod' = [prod EXCEPT !.pc = "retry", !.start = prod.now,
                                   !.deadline = WrapAdd(prod.now, prod.timeout_us)]
           \/ prod' = [prod EXCEPT !.pc = "aborted"]
  /\ UNCHANGED <<ctrl, slots, groups, q, chs, last, rsv, pushed, popped, cons,
                 ckpt_file>>

\* the attempt at the top of the loop
PushWaitRetry ==
  /\ prod.pc = "retry"
  /\ LET r == WaitAttempt
     IN /\ ctrl' = r.ctrl
        /\ slots' = r.slots
        /\ pushed' = IF r.ret = "OK"
                     THEN Append(pushed, [len |-> prod.len, data |-> prod.data])
                     ELSE pushed
        /\ prod' = IF r.ret # "FULL"
                   THEN [WaitIdle(r.ret, prod.now) EXCEPT
                           !.timeout_us = prod.timeout_us, !.start = prod.start]
                   ELSE [prod EXCEPT !.pc = "check"]
  /\ UNCHANGED <<groups, q, chs, last, rsv, popped, cons, ckpt_file>>

\* if (timeout_us > 0 && get_time_us() >= deadline) return NABD_FULL
PushWaitCheck ==
  /\ prod.pc = "check"
  /\ prod' = IF prod.timeout_us > 0 /\ prod.now >= prod.deadline
             THEN [WaitIdle("FULL", prod.now) EXCEPT
                     !.timeout_us = prod.timeout_us, !.start = prod.start]
             ELSE [prod EXCEPT !.pc = "pause"]
  /\ UNCHANGED <<ctrl, slots, groups, q, chs, last, rsv, pushed, popped, cons,
                 ckpt_file>>

\* NABD_CPU_PAUSE for the first MAX_SPINS rounds, then a sleep of 10
\* microseconds in each round (the time that passes is a Tick)
PushWaitPause ==
  /\ prod.pc = "pause"
  /\ prod' = IF prod.spin_count < MAX_SPINS
             THEN [prod EXCEPT !.pc = "retry", !.spin_count = @ + 1]
             ELSE [prod EXCEPT !.pc = "retry"]
  /\ UNCHANGED <<ctrl, slots, groups, q, chs, last, rsv, pushed, popped, cons,
                 ckpt_file>>

\* time passes
Tick ==
  /\ prod.now < MaxClock
  /\ prod' = [prod EXCEPT !.now = @ + 1]
  /\ UNCHANGED <<ctrl, slots, groups, q, chs, last, rsv, pushed, popped, cons,
                 ckpt_file>>

NextWait ==
  \/ PushWaitCall
  \/ PushWaitDeadline
  \/ PushWaitRetry
  \/ PushWaitCheck
  \/ PushWaitPause
  \/ Tick
  \/ PPPop

\* the producer, once inside push_wait, keeps running
SpecWait ==
  /\ InitWait
  /\ [][NextWait]_vars
  /\ WF_vars(PushWaitDeadline)
  /\ WF_vars(PushWaitRetry)
  /\ WF_vars(PushWaitCheck)
  /\ WF_vars(PushWaitPause)

\* C29: push_wait returns the result of a push attempt that was not FULL,
\* or FULL once the deadline has passed (timeout_us > 0), or FULL after the
\* first failed attempt without waiting (timeout_us = 0); with a negative
\* timeout it never returns FULL, and returns OK once a slot is free.
C29_PushWait ==
  /\ [][((PushWaitCall \/ PushWaitRetry \/ PushWaitCheck)
           /\ prod'.pc = "idle" /\ prod'.ret = "FULL")
          => \/ prod'.timeout_us = 0 /\ PushWaitCall
             \/ /\ prod'.timeout_us > 0
                /\ PushWaitCheck
                /\ prod'.now - prod'.start >= prod'.timeout_us]_vars
  /\ [][((PushWaitCall \/ PushWaitRetry)
           /\ prod'.pc = "idle" /\ prod'.ret # "FULL")
          => \E data \in WaitData(q) :
               /\ prod'.ret = nabd_push(ctrl, slots, q, data, BytesLen(data)).ret
               /\ prod.pc = "retry" => data = prod.data]_vars
  /\ ((prod.pc \in {"retry", "check", "pause"} /\ prod.timeout_us < 0
         /\ ~FullCheck(ctrl.head, ctrl.tail, q.capacity))
        ~> (prod.pc = "idle" /\ prod.ret = "OK"))

(* ---------------------------------------------------------------------- *)
(* SpecBackoff: nabd_push_backoff beside a consumer                       *)
(* ---------------------------------------------------------------------- *)

MAX_DELAY == 100000

\* In SpecBackoff prod is the producer process inside nabd_push_backoff;
\* slept lists the arguments of its sleep_us calls.
BackoffIdle(ret) ==
  [pc |-> "idle", ret |-> ret, max_retries |-> 0, base_delay_us |-> 0,
   delay |-> 0, retries |-> 0, data |-> <<>>, len |-> 0, slept |-> <<>>]

RetryArgs == {-1, 0, 1, 4}

\* 40000 reaches MAX_DELAY at the third sleep; doubling none of these
\* overflows an int
DelayArgs == {0, 1, 40000, 200000}

InitBackoff ==
  \E capacity \in CapArgs, slot_size \in SmallSlotSizeArgs :
    /\ ctrl = OpenCtrl(capacity, slot_size)
    /\ slots = OpenSlots(capacity, slot_size)
    /\ groups = EmptyGroups
    /\ q = OpenHandle(capacity, slot_size)
    /\ chs = <<>>
    /\ last = NoCall
    /\ rsv = NoRsv
    /\ pushed = <<>>
    /\ popped = <<>>
    /\ prod = BackoffIdle("none")
    /\ ckpt_file = NoFile
    /\ cons = ConsIdle("none")

\* push_backoff called: delay and retries are initialised
PushBackoffCall ==
  /\ prod.pc = "idle"
  /\ Len(pushed) < MaxPushPub
  /\ \E data \in WaitData(q), max_retries \in RetryArgs,
        base_delay_us \in DelayArgs :
       prod' = [BackoffIdle("none") EXCEPT
                  !.pc = "attempt", !.max_retries = max_retries,
                  !.base_delay_us = base_delay_us,
                  !.delay = IF base_delay_us > 0 THEN base_delay_us ELSE 1,
                  !.data = data, !.len = BytesLen(data)]
  /\ UNCHANGED <<ctrl, slots, groups, q, chs, last, rsv, pushed, popped, cons,
                 ckpt_file>>

\* one round of the loop up to the sleep: the attempt, retries++ and the
\* test against max_retries
PushBackoffAttempt ==
  /\ prod.pc = "attempt"
  /\ prod.retries < MaxRetries
  /\ LET r == WaitAttempt
     IN /\ ctrl' = r.ctrl
        /\ slots' = r.slots
        /\ pushed' = IF r.ret = "OK"
                     THEN Append(pushed, [len |-> prod.len, data |-> prod.data])
                     ELSE pushed
        /\ prod' = IF r.ret # "FULL"
                   THEN [prod EXCEPT !.pc = "idle", !.ret = r.ret]
                   ELSE IF prod.max_retries > 0
                           /\ prod.retries + 1 >= prod.max_retries
                   THEN [prod EXCEPT !.pc = "idle", !.ret = "FULL",
                                     !.retries = @ + 1]
                   ELSE [prod EXCEPT !.pc = "sleep", !.retries = @ + 1]
  /\ UNCHANGED <<groups, q, chs, last, rsv, popped, cons, ckpt_file>>

\* delay *= 2; if (delay > MAX_DELAY) delay = MAX_DELAY
NextDelay(delay) ==
  IF 2 * delay > MAX_DELAY THEN MAX_DELAY ELSE 2 * delay

\* sleep_us(delay), then the delay of the next round
PushBackoffSleep ==
  /\ prod.pc = "sleep"
  /\ prod' = [prod EXCEPT !.pc = "attempt",
                          !.slept = Append(@, prod.delay),
                          !.delay = NextDelay(prod.delay)]
  /\ UNCHANGED <<ctrl, slots, groups, q, chs, last, rsv, pushed, popped, cons,
                 ckpt_file>>

NextBackoff ==
  \/ PushBackoffCall
  \/ PushBackoffAttempt
  \/ PushBackoffSleep
  \/ PPPop

SpecBackoff == InitBackoff /\ [][NextBackoff]_vars

\* C30: push_backoff returns FULL only with max_retries = N > 0, after N
\* failed attempts; it sleeps base_delay_us first and then twice the
\* previous delay, never longer than 100 ms; an attempt that is not FULL
\* is returned at once.
C30_PushBackoff ==
  /\ [][(PushBackoffAttempt /\ prod'.pc = "idle" /\ prod'.ret = "FULL")
          => /\ prod.max_retries > 0
             /\ prod'.retries = prod.max_retries
             /\ Len(prod.slept) = prod.max_retries - 1]_vars
  /\ [][PushBackoffSleep
          => LET k == Len(prod'.slept)
             IN /\ prod'.slept[k] <= MAX_DELAY
                /\ prod'.slept[k]
                     = IF k = 1 THEN prod.base_delay_us
                       ELSE IF 2 * prod.slept[k - 1] > MAX_DELAY THEN MAX_DELAY
                       ELSE 2 * prod.slept[k - 1]]_vars
  /\ [][(PushBackoffAttempt /\ WaitAttempt.ret # "FULL")
          => prod'.pc = "idle" /\ prod'.ret = WaitAttempt.ret]_vars

(* ---------------------------------------------------------------------- *)
(* The head under push, reserve and commit                                *)
(* ---------------------------------------------------------------------- *)

\* C31: head never decreases: a successful push or commit adds exactly 1
\* to it and no other call changes it, a commit that follows pushes made
\* while its reservation was outstanding included.
C31_HeadMonotone ==
  [][/\ ctrl'.head >= ctrl.head
     /\ ((Push \/ Commit) /\ last'.ret = "OK") => ctrl'.head = ctrl.head + 1
     /\ ~((Push \/ Commit) /\ last'.ret = "OK") => ctrl'.head = ctrl.head]_vars

(* ---------------------------------------------------------------------- *)
(* SpecCommit: commit with every len it accepts                           *)
(* ---------------------------------------------------------------------- *)

\* nabd_commit with a len of the caller's choice, the lengths above the
\* payload area included
CommitAny ==
  \E len \in Lens(q) :
    LET r == nabd_commit(ctrl, slots, q, len)
    IN /\ ctrl' = r.ctrl
       /\ slots' = r.slots
       /\ q' = r.q
       /\ last' = Result("commit", r.ret, 0, len, len, <<>>, q.reserve_pos)
       /\ rsv' = IF r.ret = "OK" THEN NoRsv ELSE rsv
       /\ UNCHANGED <<groups, chs, pushed, popped, prod, cons,
                      ckpt_file>>

NextCommit ==
  \/ Push
  \/ Pop
  \/ Reserve
  \/ WriteReserved
  \/ CommitAny

SpecCommit == Init /\ [][NextCommit]_vars

\* C32: a slot published by push or by commit has header length at most
\* slot_size - 8, whatever len commit was given, and a pop copies no more
\* than that.
C32_PublishedLength ==
  [][/\ ((Push \/ CommitAny) /\ last'.ret = "OK")
          => slots'[get_slot(q, last'.idx)].length
               <= q.slot_size - SizeofSlotHeader
     /\ (Pop /\ last'.ret = "OK")
          => last'.len <= q.slot_size - SizeofSlotHeader]_vars

(* ---------------------------------------------------------------------- *)
(* The tails of the consumer groups                                       *)
(* ---------------------------------------------------------------------- *)

\* C33: every active group's tail is at most head after every operation.
C33_GroupTailBelowHead ==
  \A j \in DOMAIN groups : groups[j].active # 0 => groups[j].tail <= ctrl.head

(* ---------------------------------------------------------------------- *)
(* SpecRace: two handles of one group inside consumer_pop                  *)
(* ---------------------------------------------------------------------- *)

\* One process creates a group and a second joins it; cons[k] is the
\* process that holds handle chs[k], inside nabd_consumer_pop or
\* nabd_consumer_release step by step.  popped is the log of the group:
\* its creation (start is the head it began at) and every message a
\* consumer_pop returned (idx is its logical index, k the handle).

InitRace ==
  \E capacity \in CapArgs, slot_size \in SmallSlotSizeArgs :
    /\ ctrl = OpenCtrl(capacity, slot_size)
    /\ slots = OpenSlots(capacity, slot_size)
    /\ groups = EmptyGroups
    /\ q = [OpenHandle(capacity, slot_size) EXCEPT !.multi = TRUE]
    /\ chs = <<>>
    /\ last = NoCall
    /\ rsv = NoRsv
    /\ pushed = <<>>
    /\ popped = <<>>
    /\ prod = ProdIdle("none")
    /\ ckpt_file = NoFile
    /\ cons = [k \in FanConsumers |-> ConsIdle("none")]

RaceCreate ==
  /\ chs = <<>>
  /\ \E group_id \in JoinGroupIds, i \in ClaimChoices(groups) :
       /\ i # -1
       /\ LET r == nabd_consumer_create(groups, ctrl, group_id, i)
          IN /\ groups' = r.groups
             /\ chs' = Append(chs, r.handle)
             /\ popped' = Append(popped, [group |-> i, start |-> ctrl.head])
             /\ last' = Result("consumer_create", "OK", ctrl.head, group_id, 0,
                               <<>>, i)
  /\ UNCHANGED <<ctrl, slots, q, rsv, pushed, prod, cons, ckpt_file>>

\* nabd_consumer_pop entered: the relaxed load of the group's tail
RacePopLoadTail ==
  \E k \in 1 .. Len(chs) :
    /\ cons[k].pc = "idle"
    /\ cons' = [cons EXCEPT ![k] =
                  [ConsIdle("none") EXCEPT
                     !.pc = "load_head", !.tail = groups[chs[k].group].tail,
                     !.buflen = MaxPayload(q)]]
    /\ UNCHANGED <<ctrl, slots, groups, q, chs, last, rsv, pushed, popped, prod,
                   ckpt_file>>

\* the acquire load of head and the empty check
RacePopLoadHead ==
  \E k \in 1 .. Len(chs) :
    /\ cons[k].pc = "load_head"
    /\ cons' = [cons EXCEPT ![k] =
                  IF cons[k].tail >= ctrl.head
                  THEN ConsIdle("EMPTY")
                  ELSE [cons[k] EXCEPT !.pc = "read_header", !.head = ctrl.head]]
    /\ UNCHANGED <<ctrl, slots, groups, q, chs, last, rsv, pushed, popped, prod,
                   ckpt_file>>

\* msg_len = hdr->length and the buffer check
RacePopReadHeader ==
  \E k \in 1 .. Len(chs) :
    /\ cons[k].pc = "read_header"
    /\ LET msg_len == slots[get_slot(q, cons[k].tail)].length
       IN cons' = [cons EXCEPT ![k] =
                     IF msg_len > cons[k].buflen
                     THEN ConsIdle("TOOBIG")
                     ELSE [cons[k] EXCEPT !.pc = "copy", !.msg_len = msg_len]]
    /\ UNCHANGED <<ctrl, slots, groups, q, chs, last, rsv, pushed, popped, prod,
                   ckpt_file>>

\* memcpy(buf, payload, msg_len)
RacePopCopy ==
  \E k \in 1 .. Len(chs) :
    /\ cons[k].pc = "copy"
    /\ cons' = [cons EXCEPT ![k] =
                  [cons[k] EXCEPT
                     !.pc = "store_tail",
                     !.data = TakeBytes(slots[get_slot(q, cons[k].tail)].payload,
                                        cons[k].msg_len)]]
    /\ UNCHANGED <<ctrl, slots, groups, q, chs, last, rsv, pushed, popped, prod,
                   ckpt_file>>

RacePopStoreTail_FromShared ==
  \E k \in 1 .. Len(chs) :
    /\ cons[k].pc = "store_tail"
    /\ groups' = [groups EXCEPT ![chs[k].group].tail = @ + 1]
    /\ popped' = Append(popped, [group |-> chs[k].group, idx |-> cons[k].tail,
                                 len |-> cons[k].msg_len, data |-> cons[k].data,
                                 k |-> k])
    /\ cons' = [cons EXCEPT ![k] = ConsIdle("OK")]
    /\ UNCHANGED <<ctrl, slots, q, chs, last, rsv, pushed, prod, ckpt_file>>

\* the release store of tail + 1, tail being the value loaded at entry;
\* consumer_pop returns OK
RacePopStoreTail ==
  \E k \in 1 .. Len(chs) :
    /\ cons[k].pc = "store_tail"
    /\ groups' = [groups EXCEPT ![chs[k].group].tail = cons[k].tail + 1]
    /\ popped' = Append(popped, [group |-> chs[k].group, idx |-> cons[k].tail,
                                 len |-> cons[k].msg_len, data |-> cons[k].data,
                                 k |-> k])
    /\ cons' = [cons EXCEPT ![k] = ConsIdle("OK")]
    /\ UNCHANGED <<ctrl, slots, q, chs, last, rsv, pushed, prod, ckpt_file>>

NextRace ==
  \/ PubPush
  \/ RaceCreate
  \/ ConsumerJoin
  \/ RacePopLoadTail
  \/ RacePopLoadHead
  \/ RacePopReadHeader
  \/ RacePopCopy
  \/ RacePopStoreTail

SpecRace == InitRace /\ [][NextRace]_vars

\* nabd_consumer_release: the relaxed load of the group's tail
RaceReleaseLoadTail ==
  \E k \in 1 .. Len(chs) :
    /\ cons[k].pc = "idle"
    /\ groups[chs[k].group].tail < MaxHead
    /\ cons' = [cons EXCEPT ![k] =
                  [ConsIdle("none") EXCEPT
                     !.pc = "release_store", !.tail = groups[chs[k].group].tail]]
    /\ UNCHANGED <<ctrl, slots, groups, q, chs, last, rsv, pushed, popped, prod,
                   ckpt_file>>

\* nabd_consumer_release: the release store of tail + 1
RaceReleaseStoreTail ==
  \E k \in 1 .. Len(chs) :
    /\ cons[k].pc = "release_store"
    /\ groups' = [groups EXCEPT ![chs[k].group].tail = cons[k].tail + 1]
    /\ cons' = [cons EXCEPT ![k] = ConsIdle("OK")]
    /\ UNCHANGED <<ctrl, slots, q, chs, last, rsv, pushed, popped, prod,
                   ckpt_file>>

NextRaceRelease ==
  \/ PubPush
  \/ RaceCreate
  \/ ConsumerJoin
  \/ RacePopLoadTail
  \/ RacePopLoadHead
  \/ RacePopReadHeader
  \/ RacePopCopy
  \/ RacePopStoreTail
  \/ RaceReleaseLoadTail
  \/ RaceReleaseStoreTail

SpecRaceRelease == InitRace /\ [][NextRaceRelease]_vars

\* C34: a group's tail never decreases, two handles of the group running
\* consumer_pop or consumer_release concurrently included.
C34_GroupTailMonotone ==
  [][\A j \in DOMAIN groups :
       groups[j].active # 0 => groups'[j].tail >= groups[j].tail]_vars

\* the entries of the log that are messages returned to a handle
Returned == {n \in 1 .. Len(popped) : "idx" \in DOMAIN popped[n]}

\* C35: every message below the tail of a group was returned by a
\* consumer_pop of one of the group's handles, as it was published: pops
\* that race may return a message twice, and skip none.
C35_NoMessageSkipped ==
  \A c \in 1 .. Len(popped) :
    "start" \in DOMAIN popped[c]
      => \A i \in popped[c].start .. groups[popped[c].group].tail - 1 :
           \E n \in Returned :
             /\ popped[n].group = popped[c].group
             /\ popped[n].idx = i
             /\ popped[n].len = pushed[i + 1].len
             /\ popped[n].data = pushed[i + 1].data

\* C35 witness: both handles returned the first message, the second
\* message was returned as well and the tail stands behind both
C35_Witness ==
  /\ Len(chs) = 2
  /\ chs[1].group = chs[2].group
  /\ groups[chs[1].group].tail = 2
  /\ \E m, n \in Returned :
       /\ popped[m].idx = 0 /\ popped[n].idx = 0
       /\ popped[m].k # popped[n].k
  /\ \E n \in Returned : popped[n].idx = 1
  /\ \A k \in FanConsumers : cons[k].pc = "idle"

(* ---------------------------------------------------------------------- *)
(* SpecNew: nabd_open with NABD_CREATE on a new name, for more arguments   *)
(* ---------------------------------------------------------------------- *)

\* capacity and slot_size arguments of nabd_open: 0 asks for the default
OpenCapArgs == {0, 1, 2, 3, 5}
OpenSlotSizeArgs == {0, 8, 16, 24}

\* last.arg and last.len are the capacity and slot_size that were asked for
InitNew ==
  \E capacity \in OpenCapArgs, slot_size \in OpenSlotSizeArgs :
    /\ ctrl = OpenCtrl(capacity, slot_size)
    /\ slots = OpenSlots(capacity, slot_size)
    /\ groups = EmptyGroups
    /\ q = OpenHandle(capacity, slot_size)
    /\ chs = <<>>
    /\ last = Result("open", "OK", 0, capacity, slot_size, <<>>, 0)
    /\ rsv = NoRsv
    /\ pushed = <<>>
    /\ popped = <<>>
    /\ prod = ProdIdle("none")
    /\ ckpt_file = NoFile
    /\ cons = ConsIdle("none")

NextNew ==
  \/ Push
  \/ Pop

SpecNew == InitNew /\ [][NextNew]_vars

\* C36: after open with CREATE on a new name the capacity is the smallest
\* power of two >= the capacity asked for (1024 for 0) and at least 2,
\* slot_size is the larger of the value asked for and 16 (4096 for 0),
\* head = tail = 0 and the handle's mask is capacity - 1.
C36_OpenGeometry ==
  last.op = "open" =>
    LET asked == IF last.arg = 0 THEN 1024 ELSE last.arg
    IN /\ \E e \in 0 .. 10 :
            /\ ctrl.capacity = 2 ^ e
            /\ ctrl.capacity >= asked
            /\ e > 0 => 2 ^ (e - 1) < asked
       /\ ctrl.capacity >= 2
       /\ ctrl.slot_size = (IF last.len = 0 THEN 4096
                            ELSE IF last.len > 16 THEN last.len ELSE 16)
       /\ ctrl.head = 0
       /\ ctrl.tail = 0
       /\ q.mask = ctrl.capacity - 1
       /\ q.capacity = ctrl.capacity
       /\ q.slot_size = ctrl.slot_size

(* ---------------------------------------------------------------------- *)
(* SpecPlain: consumer_create on the handle nabd_open returns             *)
(* ---------------------------------------------------------------------- *)

\* the handle is the one nabd_open builds: calloc leaves q->multi NULL and
\* nothing sets it
NextPlain ==
  \/ Push
  \/ Pop
  \/ ConsumerCreate

SpecPlain == Init /\ [][NextPlain]_vars

\* C37: the handle of a newly created region exposes the group table with
\* every group inactive, and consumer_create succeeds while fewer than 16
\* groups are active.
C37_CreateOnNewQueue ==
  /\ [](q.multi)
  /\ [](DOMAIN groups = 0 .. NABD_MAX_CONSUMERS - 1)
  /\ [][(ConsumerCreate
           /\ Cardinality({j \in DOMAIN groups : groups[j].active # 0})
                < NABD_MAX_CONSUMERS)
          => /\ last'.ret = "OK"
             /\ Len(chs') = Len(chs) + 1]_vars

(* ---------------------------------------------------------------------- *)
(* The group ids of the table                                             *)
(* ---------------------------------------------------------------------- *)

\* C38: at most one active slot of the group table carries a given
\* group_id.
C38_UniqueGroupIds ==
  \A i, j \in DOMAIN groups :
    (groups[i].active # 0 /\ groups[j].active # 0
       /\ groups[i].group_id = groups[j].group_id) => i = j

(* ---------------------------------------------------------------------- *)
(* SpecObserve: nabd_min_tail between the steps of consumer_create         *)
(* ---------------------------------------------------------------------- *)

\* two groups are created
ObserveClaim == Cardinality(ActiveGroups) + 1 \in FanConsumers /\ CreateClaim

NextObserve ==
  \/ PubPush
  \/ ObserveClaim
  \/ CreateInit
  \/ MinTail

SpecObserve == InitCreate /\ [][NextObserve]_vars

\* the active groups whose creator has stored their tail
Initialised ==
  {j \in ActiveGroups : \A p \in Creators :
                          ~(cons[p].pc = "claimed" /\ cons[p].slot = j)}

\* C39: no group is seen as claimed before its tail holds the head read at
\* its creation: min_tail, run between the steps of a consumer_create,
\* returns the least tail of the groups whose creation has stored it.
C39_ClaimedIsInitialised ==
  [][MinTail
       => IF Initialised = {} THEN last'.val = ctrl.tail
          ELSE /\ \E j \in Initialised : last'.val = groups[j].tail
               /\ \A j \in Initialised : last'.val <= groups[j].tail]_vars

(* ---------------------------------------------------------------------- *)
(* SpecLap: consumer_resume on a queue whose producer has moved on         *)
(* ---------------------------------------------------------------------- *)

\* the calls of SpecResume on a queue that stays open, with the single
\* consumer's pop, which frees slots for the producer
\* one group is created, and checkpointed
LapCreate == chs = <<>> /\ ResumeCreate

NextLap ==
  \/ PubPush
  \/ DiagPop
  \/ LapCreate
  \/ MinConsumerPop
  \/ CheckpointSave
  \/ ConsumerResume

SpecLap == InitFan /\ [][NextLap]_vars

\* C40: consumer_resume leaves the group's tail at most capacity behind
\* head, and the pop that follows it returns the message published at the
\* tail's logical index.
C40_ResumeWithinCapacity ==
  [][/\ ConsumerResume
          => ctrl.head - groups'[chs'[Len(chs')].group].tail <= ctrl.capacity
     /\ (MinConsumerPop /\ last.op = "consumer_resume" /\ last'.ret = "OK"
           /\ last'.idx = last.idx)
          => LET i == groups[chs[last.idx].group].tail
             IN /\ last'.len = pushed[i + 1].len
                /\ last'.data = pushed[i + 1].data]_vars

====
